---------------------------- MODULE Spec2Model ----------------------------
(***************************************************************************)
(* CryptoLens: wallet challenge / link protocol and the profile store.     *)
(*                                                                         *)
(* The model follows src/pages/api/wallet.js (the wallet handler),         *)
(* src/pages/api/auth/[...nextauth].js (the sign-ins and the session       *)
(* token), src/lib/profile.js (just-in-time profile creation),             *)
(* src/lib/jwt.js (the identity claim handed to the store),                *)
(* src/pages/api/updateProfile.js,                                         *)
(* src/pages/index.js (the favorites update) and src/unnamed/part_000 (the *)
(* SQL schema: constraints, trigger, row-level policies, the transactional *)
(* favorites function).                                                    *)
(*                                                                         *)
(* Strings that the code only compares are strings here.  Strings that the *)
(* code takes apart are structured: an address is a sequence of            *)
(* characters, a cookie value is its sequence of dot-separated parts, a    *)
(* Cookie header is its sequence of ';'-separated entries.  Base64url,     *)
(* JSON and HMAC-SHA256 are symbolic (free constructors with the decoders' *)
(* failure cases): two encodings are equal exactly when their inputs are.  *)
(***************************************************************************)
EXTENDS Integers, Sequences, FiniteSets, TLC

(***************************************************************************)
(* Nullable values: NULL is the empty set, a present value v is {v}.       *)
(***************************************************************************)
NULL == {}
Some(v) == {v}
Get(x) == CHOOSE v \in x : TRUE

(***************************************************************************)
(* Characters and Ethereum addresses                                       *)
(***************************************************************************)
HexLen == 40

LowerHex == {"0", "1", "2", "3", "4", "5", "6", "7", "8", "9",
             "a", "b", "c", "d", "e", "f"}
UpperHex == {"A", "B", "C", "D", "E", "F"}

\* String.prototype.toLowerCase on one character of the model's alphabet
LowerChar(c) ==
    CASE c = "A" -> "a" [] c = "B" -> "b" [] c = "C" -> "c"
      [] c = "D" -> "d" [] c = "E" -> "e" [] c = "F" -> "f"
      [] OTHER -> c

\* String.prototype.toLowerCase
ToLowerCase(s) == [i \in 1..Len(s) |-> LowerChar(s[i])]

\* /^0x[a-fA-F0-9]{40}$/.test(address)
isValidEthereumAddress(address) ==
    /\ Len(address) = 2 + HexLen
    /\ address[1] = "0"
    /\ address[2] = "x"
    /\ \A i \in 3..Len(address) : address[i] \in LowerHex \cup UpperHex

Zeros(n) == [i \in 1..n |-> "0"]

\* Two accounts, as signature recovery returns them (EIP-55 mixed case),
\* and a string that is no address.
AddrA == <<"0", "x">> \o Zeros(HexLen - 2) \o <<"A", "b">>
AddrB == <<"0", "x">> \o Zeros(HexLen - 2) \o <<"C", "d">>
AddrJunk == <<"0", "x">> \o Zeros(HexLen - 2) \o <<"E", "f">>
NotAnAddr == <<"0", "x", "z">>


(***************************************************************************)
(* Challenge codec: src/pages/api/wallet.js lines 17-106                   *)
(***************************************************************************)
CHALLENGE_COOKIE == "wallet_challenge"
CHALLENGE_TTL_SECONDS == 600

\* process.env.NEXTAUTH_SECRET || process.env.SUPABASE_JWT_SECRET, trimmed
getHmacSecret == "server-secret"

\* A plain string part of a dotted cookie value
Str(s) == [t |-> "str", s |-> s]
EmptyString == <<Str("")>>

\* Date.prototype.toISOString / new Date(iso).getTime(): millisecond precision
toISOString(ms) == [iso |-> ms]
getTime(iso) == iso.iso

\* JSON.stringify(value): the text of a JSON document
JSONstringify(value) == [t |-> "json", v |-> Some(value)]
\* the JSON document "null", and a text that is no JSON document
JsonNullText == [t |-> "json", v |-> NULL]
GarbageText == [t |-> "raw", s |-> "garbage"]
\* JSON.parse(text)
JSONparse(text) ==
    IF text.t = "json" THEN [ok |-> TRUE, v |-> text.v]
    ELSE [ok |-> FALSE, v |-> NULL]

\* Buffer.from(str,'utf8').toString('base64'), '=' dropped, '+/' to '-_':
\* the canonical text for str
base64urlEncode(str) == [t |-> "b64", of |-> str, canonical |-> TRUE]
\* another text Node decodes to the same bytes (a character outside the
\* alphabet put in, or the unused bits of the last character changed)
base64Variant(b64) == [b64 EXCEPT !.canonical = FALSE]
\* Buffer.from(padded,'base64').toString('utf8'): lenient, never throws
base64urlDecodeToString(b64) ==
    IF b64.t = "b64" THEN b64.of ELSE [t |-> "raw", s |-> b64.s]

\* createHmac('sha256', key).update(input).digest('base64') as base64url
hmacWith(key, input) == [t |-> "mac", key |-> key, of |-> input]
hmacSign(input) == hmacWith(getHmacSecret, input)

\* encodeURIComponent: a base64url/dotted value has no character to escape
encodeURIComponent(value) == [pct |-> "ok", parts |-> value]
\* a raw cookie value with a malformed percent escape, such as "%"
MalformedEscape == [pct |-> "bad", parts |-> EmptyString]
\* decodeURIComponent: throws URIError on a malformed escape
decodeURIComponent(raw) ==
    IF raw.pct = "ok" THEN [threw |-> FALSE, v |-> Some(raw.parts)]
    ELSE [threw |-> TRUE, v |-> NULL]

\* serializeCookie(name, value, {maxAge}): the Set-Cookie header value
serializeCookie(name, value, maxAge) ==
    [name |-> name, value |-> encodeURIComponent(value), path |-> "/",
     maxAge |-> maxAge, sameSite |-> "Strict", httpOnly |-> TRUE]

\* a variant that signs the encoded text instead of the JSON text
challengeCookieValueSignsEncoded(payload) ==
    LET json == JSONstringify(payload)
    IN  <<Str("v1"), base64urlEncode(json), hmacSign(base64urlEncode(json))>>

\* the value setChallengeCookie builds: 'v1.' + b64(json) + '.' + hmac(json)
challengeCookieValue(payload) ==
    LET json == JSONstringify(payload)
    IN  <<Str("v1"), base64urlEncode(json), hmacSign(json)>>

\* the header setChallengeCookie sets
setChallengeCookieHeader(payload) ==
    serializeCookie(CHALLENGE_COOKIE, challengeCookieValue(payload),
                    CHALLENGE_TTL_SECONDS)

\* the header clearChallengeCookie sets
clearChallengeCookieHeader == serializeCookie(CHALLENGE_COOKIE, EmptyString, 0)

\* One ';'-separated, trimmed entry of a Cookie request header
KV(k, v) == [kind |-> "kv", k |-> k, v |-> v]
NoEqEntry == [kind |-> "noeq", k |-> "flag", v |-> MalformedEscape]
EmptyEntry == [kind |-> "empty", k |-> "", v |-> MalformedEscape]

\* indexes of the entries getCookie's loop does not skip and whose key is name
MatchingEntries(header, name) ==
    {i \in 1..Len(header) : header[i].kind = "kv" /\ header[i].k = name}

Min(S) == CHOOSE x \in S : \A y \in S : x <= y
Max(S) == CHOOSE x \in S : \A y \in S : y <= x

\* getCookie(req, name): the first matching entry, percent-decoded
getCookie(header, name) ==
    LET m == MatchingEntries(header, name)
    IN  IF m = {} THEN [threw |-> FALSE, v |-> NULL]
        ELSE decodeURIComponent(header[Min(m)].v)

Fail(code) == [ok |-> FALSE, threw |-> FALSE, code |-> code, payload |-> NULL]
\* an exception leaving the function
Thrown(name) == [ok |-> FALSE, threw |-> TRUE, code |-> name, payload |-> NULL]

\* a variant without the expiry check
challengeNeverExpires(payload, nowMs) == FALSE

\* lines 101-103: payload.expiresAt && Date.now() > new Date(expiresAt).getTime()
challengeExpired(payload, nowMs) ==
    payload.expiresAt # NULL /\ nowMs > getTime(Get(payload.expiresAt))

\* readChallengeCookie after the cookie lookup
decodeChallenge(got, nowMs) ==
    IF got.threw THEN Thrown("URIError")
    ELSE IF got.v = NULL \/ got.v = Some(EmptyString) THEN Fail("NO_CHALLENGE")
    ELSE
      LET parts == Get(got.v) IN
      IF Len(parts) # 3 \/ parts[1] # Str("v1") THEN Fail("INVALID_COOKIE")
      ELSE
        LET json == base64urlDecodeToString(parts[2])
            sig == parts[3]
            expected == hmacSign(json)
            parsed == JSONparse(json)
        IN  IF sig # expected THEN Fail("TAMPERED")
            ELSE IF ~parsed.ok THEN Fail("INVALID_JSON")
            ELSE IF parsed.v = NULL THEN Thrown("TypeError")
            ELSE
              LET payload == Get(parsed.v) IN
              IF challengeExpired(payload, nowMs) THEN Fail("EXPIRED")
              ELSE [ok |-> TRUE, threw |-> FALSE, code |-> "",
                    payload |-> Some(payload)]

\* readChallengeCookie(req) of the wallet handler, at Date.now() = nowMs
readChallengeCookie(header, nowMs) ==
    decodeChallenge(getCookie(header, CHALLENGE_COOKIE), nowMs)

\* getDomainFromReq: the Host header up to the first ':'
Host(name, port) == [name |-> name, port |-> port]
getDomainFromReq(host) == host.name


(***************************************************************************)
(* Session tokens (the session layer's output, read by getToken)           *)
(***************************************************************************)
\* a Google account: id = profile.sub, with email and name
GoogleToken ==
    [id |-> "g1", email |-> Some("alice@example.com"), name |-> Some("Alice"),
     walletAddress |-> NULL]
\* a wallet sign-in of account AddrB ([...nextauth].js authorize + jwt callback)
WalletToken ==
    [id |-> "wallet:b", email |-> NULL, name |-> Some("Wallet 0000"),
     walletAddress |-> Some(ToLowerCase(AddrB))]
Tokens == {GoogleToken, WalletToken}
Users == {t.id : t \in Tokens}
TokenOf(u) == CHOOSE t \in Tokens : t.id = u

\* makeSupabaseJwsFromToken: the 'sub' claim the row-level policies read
makeSupabaseJwsFromToken(token) == [sub |-> token.id, id |-> token.id]

(***************************************************************************)
(* Messages and signatures                                                 *)
(***************************************************************************)
\* buildPersonalSignMessage: the text, line by line
buildPersonalSignMessage(domain, userId, nonce, issuedAt, expiresAt, intent) ==
    [kind |-> "personal_sign",
     purpose |-> IF intent = "login" THEN "Sign in to Web3 Dashboard"
                 ELSE "Link your wallet to Web3 Dashboard",
     user |-> userId, domain |-> Some(domain), nonce |-> Some(nonce),
     issuedAt |-> issuedAt, expiresAt |-> Some(expiresAt)]

\* A SIWE text as the client assembles it: the header line's domain (NULL when
\* the first line is no SIWE header), the second line, the Nonce: and
\* Expiration Time: lines (NULL when absent)
SiweText(domain, address, nonce, expirationTime) ==
    [kind |-> "siwe", domain |-> domain, address |-> address, nonce |-> nonce,
     expirationTime |-> expirationTime]

\* parseSiweMessage(msg): per-line pattern matching, null for what is missing.
\* A personal_sign text has no SIWE header, an empty second line, a Nonce:
\* line and no Expiration Time: line.
parseSiweMessage(msg) ==
    IF msg.kind = "siwe"
    THEN [domain |-> msg.domain, address |-> msg.address, nonce |-> msg.nonce,
          expirationTime |-> msg.expirationTime]
    ELSE [domain |-> NULL, address |-> <<>>, nonce |-> msg.nonce,
          expirationTime |-> NULL]

\* A signature: the account that signed and the text it signed; a hex string
\* that is no signature at all has wellFormed = FALSE
Sig(signer, over) == [wellFormed |-> TRUE, signer |-> signer, over |-> Some(over)]
BadSig == [wellFormed |-> FALSE, signer |-> <<>>, over |-> NULL]

\* viem recoverMessageAddress({message, signature}): throws on a malformed
\* signature; returns the signer for the signed text, and for any other text
\* an address that is nobody's
recoverMessageAddress(message, signature) ==
    IF ~signature.wellFormed THEN [threw |-> TRUE, v |-> <<>>]
    ELSE IF signature.over = Some(message)
         THEN [threw |-> FALSE, v |-> signature.signer]
         ELSE [threw |-> FALSE, v |-> AddrJunk]

\* viem isAddress: the same format (the checksum of a recovered address is right)
isAddress(a) == isValidEthereumAddress(a)

(***************************************************************************)
(* handleChallenge: src/pages/api/wallet.js lines 458-495                  *)
(***************************************************************************)
challengePayload(host, userId, method, nowMs, nonce) ==
    LET issuedAt == toISOString(nowMs)
        expiresAt == toISOString(nowMs + CHALLENGE_TTL_SECONDS * 1000)
        domain == getDomainFromReq(host)
        intent == IF userId # NULL THEN "link" ELSE "login"
    IN  [version |-> 1, method |-> method, nonce |-> nonce,
         issuedAt |-> issuedAt, expiresAt |-> Some(expiresAt),
         domain |-> domain,
         message |-> IF method = "personal_sign"
                     THEN Some(buildPersonalSignMessage(domain, userId, nonce,
                                                        issuedAt, expiresAt, intent))
                     ELSE NULL,
         userId |-> userId]

(***************************************************************************)
(* The link gates: src/pages/api/wallet.js lines 212-288                   *)
(***************************************************************************)
Reject(status, code) ==
    [go |-> FALSE, status |-> status, code |-> code, walletAddress |-> <<>>]
Proceed(walletAddress) ==
    [go |-> TRUE, status |-> 0, code |-> "", walletAddress |-> walletAddress]

\* method 'session': lines 217-228
sessionGate(token) ==
    LET walletAddressFromToken ==
            IF token.walletAddress = NULL THEN <<>>
            ELSE ToLowerCase(Get(token.walletAddress))
    IN  IF walletAddressFromToken = <<>> THEN Reject(400, "MISSING_WALLET")
        ELSE IF ~isValidEthereumAddress(walletAddressFromToken)
             THEN Reject(400, "INVALID_WALLET")
        ELSE Proceed(walletAddressFromToken)

\* lines 282-288
addressGate(recovered) ==
    IF recovered = <<>> \/ ~isAddress(recovered)
    THEN Reject(400, "SIGNATURE_INVALID")
    ELSE LET walletAddress == ToLowerCase(recovered)
         IN  IF ~isValidEthereumAddress(walletAddress)
             THEN Reject(400, "INVALID_WALLET")
             ELSE Proceed(walletAddress)

\* lines 248-256
personalSignGate(payload, body) ==
    IF body.signature = NULL THEN Reject(400, "MISSING_SIGNATURE")
    ELSE IF payload.message = NULL THEN Reject(400, "CHALLENGE_INVALID")
    ELSE LET rec == recoverMessageAddress(Get(payload.message),
                                          Get(body.signature))
         IN  IF rec.threw THEN Reject(400, "SIGNATURE_INVALID")
             ELSE addressGate(rec.v)

\* a variant that only asks for some domain in the SIWE text
siweDomainPresent(parsed, payload) == parsed.domain # NULL

\* lines 263-265: the domain in the signed SIWE text is the challenge's domain
siweDomainMatches(parsed, payload) ==
    parsed.domain # NULL /\ Get(parsed.domain) = payload.domain

\* a variant that does not compare the nonce of the SIWE text
siweGateNonceUnchecked(payload, body, nowMs) ==
    IF body.signature = NULL \/ body.siweMessage = NULL
    THEN Reject(400, "MISSING_SIGNATURE")
    ELSE
      LET parsed == parseSiweMessage(Get(body.siweMessage))
          rec == recoverMessageAddress(Get(body.siweMessage),
                                       Get(body.signature))
      IN  IF ~siweDomainMatches(parsed, payload)
          THEN Reject(400, "DOMAIN_MISMATCH")
          ELSE IF rec.threw THEN Reject(400, "SIGNATURE_INVALID")
          ELSE IF parsed.address = <<>>
                    \/ ToLowerCase(rec.v) # ToLowerCase(parsed.address)
          THEN Reject(400, "ADDRESS_MISMATCH")
          ELSE IF parsed.expirationTime # NULL
                    /\ nowMs > getTime(Get(parsed.expirationTime))
          THEN Reject(400, "CHALLENGE_EXPIRED")
          ELSE addressGate(rec.v)

\* lines 257-277
siweGate(payload, body, nowMs) ==
    IF body.signature = NULL \/ body.siweMessage = NULL
    THEN Reject(400, "MISSING_SIGNATURE")
    ELSE
      LET parsed == parseSiweMessage(Get(body.siweMessage))
          rec == recoverMessageAddress(Get(body.siweMessage),
                                       Get(body.signature))
      IN  IF parsed.nonce = NULL \/ Get(parsed.nonce) # payload.nonce
          THEN Reject(400, "NONCE_MISMATCH")
          ELSE IF ~siweDomainMatches(parsed, payload)
          THEN Reject(400, "DOMAIN_MISMATCH")
          ELSE IF rec.threw THEN Reject(400, "SIGNATURE_INVALID")
          ELSE IF parsed.address = <<>>
                    \/ ToLowerCase(rec.v) # ToLowerCase(parsed.address)
          THEN Reject(400, "ADDRESS_MISMATCH")
          ELSE IF parsed.expirationTime # NULL
                    /\ nowMs > getTime(Get(parsed.expirationTime))
          THEN Reject(400, "CHALLENGE_EXPIRED")
          ELSE addressGate(rec.v)

\* a variant that lets a challenge without a user pass
challengeUnboundOrBelongsTo(payload, userId) ==
    payload.userId = NULL \/ payload.userId = Some(userId)

\* lines 235-237: payload.userId === userId (an absent userId is no one's)
challengeBelongsTo(payload, userId) == payload.userId = Some(userId)

\* a variant that compares the domain before the method
signatureGatesDomainFirst(userId, body, header, host, nowMs) ==
    LET chall == readChallengeCookie(header, nowMs) IN
    IF chall.threw THEN Reject(500, "INTERNAL_ERROR")
    ELSE IF ~chall.ok THEN Reject(400, "CHALLENGE_INVALID")
    ELSE
      LET payload == Get(chall.payload) IN
      IF ~challengeBelongsTo(payload, userId) THEN Reject(400, "CHALLENGE_MISMATCH")
      ELSE IF payload.domain # getDomainFromReq(host)
      THEN Reject(400, "DOMAIN_MISMATCH")
      ELSE IF Some(payload.method) # body.method
      THEN Reject(400, "CHALLENGE_METHOD_MISMATCH")
      ELSE IF body.method = Some("personal_sign")
      THEN personalSignGate(payload, body)
      ELSE IF body.method = Some("siwe") THEN siweGate(payload, body, nowMs)
      ELSE Reject(400, "INVALID_METHOD")

\* lines 230-280: the challenge gates of a signature-based link
signatureGates(userId, body, header, host, nowMs) ==
    LET chall == readChallengeCookie(header, nowMs) IN
    IF chall.threw THEN Reject(500, "INTERNAL_ERROR")
    ELSE IF ~chall.ok THEN Reject(400, "CHALLENGE_INVALID")
    ELSE
      LET payload == Get(chall.payload) IN
      IF ~challengeBelongsTo(payload, userId) THEN Reject(400, "CHALLENGE_MISMATCH")
      ELSE IF Some(payload.method) # body.method
      THEN Reject(400, "CHALLENGE_METHOD_MISMATCH")
      ELSE IF payload.domain # getDomainFromReq(host)
      THEN Reject(400, "DOMAIN_MISMATCH")
      ELSE IF body.method = Some("personal_sign")
      THEN personalSignGate(payload, body)
      ELSE IF body.method = Some("siwe") THEN siweGate(payload, body, nowMs)
      ELSE Reject(400, "INVALID_METHOD")

\* case 'link' up to the call of handleLink
linkGates(token, body, header, host, nowMs) ==
    IF body.method = NULL THEN Reject(400, "INVALID_METHOD")
    ELSE IF body.method = Some("session") THEN sessionGate(token)
    ELSE signatureGates(token.id, body, header, host, nowMs)


(***************************************************************************)
(* The profile store: src/unnamed/part_000                                 *)
(*                                                                         *)
(* A table is the set of its rows.  profiles(user_id, username, email,     *)
(* bio, wallet_address, wallet_linked_at); the link columns and the        *)
(* timestamps created_at/updated_at, which no constraint or policy reads,  *)
(* are left out.  favorites(user_id, token_id).                            *)
(***************************************************************************)
ProfileRow(user_id, username, email, bio, wallet_address, wallet_linked_at) ==
    [user_id |-> user_id, username |-> username, email |-> email, bio |-> bio,
     wallet_address |-> wallet_address, wallet_linked_at |-> wallet_linked_at]

\* normalize_wallet_lowercase(), trigger trg_profiles_wallet_normalize
normalize_wallet_lowercase(new) ==
    IF new.wallet_address = NULL THEN new
    ELSE LET low == ToLowerCase(Get(new.wallet_address))
         IN  [new EXCEPT !.wallet_address = IF low = <<>> THEN NULL ELSE Some(low)]

\* CHECK profiles_wallet_address_lowercase_chk
profiles_wallet_address_lowercase_chk(row) ==
    row.wallet_address = NULL
        \/ Get(row.wallet_address) = ToLowerCase(Get(row.wallet_address))

\* a UNIQUE nullable column: NULLs never conflict
UniqueColumn(table, col) ==
    \A r1, r2 \in table : (r1 # r2 /\ r1[col] # NULL) => r1[col] # r2[col]

\* user_id TEXT UNIQUE NOT NULL
UniqueUserId(table) ==
    \A r1, r2 \in table : r1 # r2 => r1.user_id # r2.user_id

\* a schema without the unique index
no_unique_wallet_address(table) == TRUE

\* wallet_address TEXT UNIQUE and the partial index uniq_profiles_wallet_address
uniq_profiles_wallet_address(table) == UniqueColumn(table, "wallet_address")

\* user_id UNIQUE, email UNIQUE, profiles_username_unique, wallet_address UNIQUE
ProfilesUnique(table) ==
    /\ UniqueUserId(table)
    /\ UniqueColumn(table, "username")
    /\ UniqueColumn(table, "email")
    /\ uniq_profiles_wallet_address(table)

\* policies profiles_select_user / profiles_update_user (USING) and
\* profiles_insert_user / profiles_update_user (WITH CHECK):
\* (auth.jwt() ->> 'sub') = user_id
profiles_policy(jwt, row) == jwt.sub = row.user_id
\* policies favorites_*_user
favorites_policy(jwt, row) == jwt.sub = row.user_id

DbOk(table, data) == [error |-> NULL, table |-> table, data |-> data]
DbError(table, code) == [error |-> Some(code), table |-> table, data |-> {}]

\* INSERT INTO profiles ... RETURNING (PostgREST .insert().select())
InsertProfile(table, jwt, row) ==
    LET new == normalize_wallet_lowercase(row) IN
    IF ~profiles_policy(jwt, new) THEN DbError(table, "42501")
    ELSE IF ~profiles_wallet_address_lowercase_chk(new) THEN DbError(table, "23514")
    ELSE IF new \in table \/ ~ProfilesUnique(table \cup {new})
         THEN DbError(table, "23505")
    ELSE DbOk(table \cup {new}, {new})

\* SELECT ... FROM profiles WHERE user_id = userId
SelectProfileByUser(table, jwt, userId) ==
    {r \in table : profiles_policy(jwt, r) /\ r.user_id = userId}

\* SELECT ... FROM profiles WHERE wallet_address = walletAddress
SelectProfileByWallet(table, jwt, walletAddress) ==
    {r \in table : profiles_policy(jwt, r) /\ r.wallet_address = Some(walletAddress)}

\* the SET list of an UPDATE of profiles: per column NULL when the column is
\* not named, else Some(new value)
NoSet ==
    [username |-> NULL, bio |-> NULL, wallet_address |-> NULL,
     wallet_linked_at |-> NULL]

\* the row with the SET list applied; trg_profiles_wallet_normalize runs
\* when the SET list names wallet_address
ApplySet(r, cols) ==
    LET new == ProfileRow(r.user_id,
                   IF cols.username = NULL THEN r.username ELSE Get(cols.username),
                   r.email,
                   IF cols.bio = NULL THEN r.bio ELSE Get(cols.bio),
                   IF cols.wallet_address = NULL THEN r.wallet_address
                   ELSE Get(cols.wallet_address),
                   IF cols.wallet_linked_at = NULL THEN r.wallet_linked_at
                   ELSE Get(cols.wallet_linked_at))
    IN  IF cols.wallet_address = NULL THEN new ELSE normalize_wallet_lowercase(new)

\* a variant for a table whose unique constraints are not enforced
UpdateProfilesUnconstrained(table, jwt, userId, cols) ==
    LET hit == {r \in table : profiles_policy(jwt, r) /\ r.user_id = userId}
        new == {ApplySet(r, cols) : r \in hit}
    IN  IF \E r \in new : ~profiles_policy(jwt, r) THEN DbError(table, "42501")
        ELSE IF \E r \in new : ~profiles_wallet_address_lowercase_chk(r)
             THEN DbError(table, "23514")
        ELSE DbOk((table \ hit) \cup new, new)

\* UPDATE profiles SET <cols> WHERE user_id = userId RETURNING *
UpdateProfiles(table, jwt, userId, cols) ==
    LET hit == {r \in table : profiles_policy(jwt, r) /\ r.user_id = userId}
        set(r) == ApplySet(r, cols)
        new == {set(r) : r \in hit}
        after == (table \ hit) \cup new
    IN  IF \E r \in new : ~profiles_policy(jwt, r) THEN DbError(table, "42501")
        ELSE IF \E r \in new : ~profiles_wallet_address_lowercase_chk(r)
             THEN DbError(table, "23514")
        ELSE IF Cardinality(after) # Cardinality(table) \/ ~ProfilesUnique(after)
             THEN DbError(table, "23505")
        ELSE DbOk(after, new)


\* token ids: String.prototype.toLowerCase / SQL LOWER on the model's ids
LowerToken(t) == CASE t = "BTC" -> "btc" [] t = "ETH" -> "eth" [] OTHER -> t
\* TokenId of src/lib/validation.js: /^[a-z0-9-]+$/
IsTokenId(t) == LowerToken(t) = t

FavoriteRow(user_id, token_id) == [user_id |-> user_id, token_id |-> token_id]

SeqToSet(q) == {q[i] : i \in 1..Len(q)}

\* a variant of the function that trusts p_user_id
jwt_sub_unchecked(jwt, p_user_id) == FALSE

\* (auth.jwt() ->> 'sub') IS DISTINCT FROM p_user_id
jwt_sub_is_distinct_from(jwt, p_user_id) == jwt.sub # p_user_id

\* hashtext(p_user_id), the key of the advisory lock: text to int4, so
\* different texts share keys; in the model the id "g2" shares the key of "g1"
hashtext(text) == CASE text \in {"g1", "g2"} -> 1 [] OTHER -> 2

\* public.replace_user_favorites(p_user_id, p_token_ids), one transaction
replace_user_favorites(favs, profs, jwt, p_user_id, p_token_ids) ==
    LET input_ids == {LowerToken(t) : t \in SeqToSet(p_token_ids)}
        kept == {f \in favs : f.user_id # p_user_id \/ f.token_id \in input_ids}
        after == kept \cup {FavoriteRow(p_user_id, i) : i \in input_ids}
    IN  IF jwt_sub_is_distinct_from(jwt, p_user_id) THEN DbError(favs, "42501")
        ELSE IF input_ids # {} /\ ~\E r \in profs : r.user_id = p_user_id
             THEN DbError(favs, "23503")
        ELSE DbOk(after, {})

\* DELETE FROM favorites WHERE user_id = userId
DeleteFavorites(favs, jwt, userId) ==
    DbOk({f \in favs : ~(favorites_policy(jwt, f) /\ f.user_id = userId)}, {})

\* INSERT INTO favorites (user_id, token_id) VALUES ...
InsertFavorites(favs, profs, jwt, rows) ==
    IF \E f \in rows : ~favorites_policy(jwt, f) THEN DbError(favs, "42501")
    ELSE IF \E f \in rows : f \in favs THEN DbError(favs, "23505")
    ELSE IF \E f \in rows : ~\E r \in profs : r.user_id = f.user_id
         THEN DbError(favs, "23503")
    ELSE DbOk(favs \cup rows, rows)

\* SELECT token_id FROM favorites WHERE user_id = userId
SelectFavorites(favs, jwt, userId) ==
    {f \in favs : favorites_policy(jwt, f) /\ f.user_id = userId}

(***************************************************************************)
(* The HTTP response object (Node's ServerResponse as the handlers use it) *)
(***************************************************************************)
\* a response under construction: the Set-Cookie header set so far, and what
\* was sent (NULL until res.status(..).json(..) runs)
NewRes == [setCookie |-> NULL, sent |-> NULL]

\* res.status(status).json(body): headers and body leave with this call
sendJson(res, status, code, data) ==
    IF res.sent # NULL THEN res
    ELSE [res EXCEPT !.sent = Some([status |-> status, code |-> code,
                                    data |-> data, setCookie |-> res.setCookie])]

\* sendError(res, status, code, message, details)
sendError(res, status, code) == sendJson(res, status, code, NULL)

\* res.setHeader('Set-Cookie', h): once the response was sent it throws
\* ERR_HTTP_HEADERS_SENT and what the client got stays as it was sent
setCookieHeader(res, h) ==
    IF res.sent # NULL THEN res ELSE [res EXCEPT !.setCookie = Some(h)]

\* clearChallengeCookie(res)
clearChallengeCookie(res) == setCookieHeader(res, clearChallengeCookieHeader)

\* setChallengeCookie(res, payload)
setChallengeCookie(res, payload) ==
    setCookieHeader(res, setChallengeCookieHeader(payload))

\* The browser: a Set-Cookie with Max-Age=0 removes the cookie, any other
\* stores its value; no Set-Cookie leaves the jar as it is
BrowserStore(old, response) ==
    IF response.setCookie = NULL THEN old
    ELSE LET h == Get(response.setCookie)
         IN  IF h.maxAge = 0 THEN NULL ELSE Some(h.value)

\* the Cookie header a browser sends for its jar
BrowserHeader(j) == IF j = NULL THEN <<>> ELSE <<KV(CHALLENGE_COOKIE, Get(j))>>


(***************************************************************************)
(* State                                                                   *)
(***************************************************************************)
VARIABLES
    profiles,   \* table public.profiles
    favorites,  \* table public.favorites
    now,        \* Date.now(), milliseconds
    ticks,      \* how often the clock advanced
    nreq,       \* how many requests have arrived
    jar,        \* per user's browser: the wallet_challenge cookie held (or NULL)
    slot,       \* per request being handled: its handler's position and locals
    session,    \* per user's browser: the session token held and how it was got
    cx          \* the codec's inputs and output when it is run on its own

vars == <<profiles, favorites, now, ticks, nreq, jar, slot, session, cx>>

\* Bounds of the model
MaxTicks == 1
MaxRequests == 3

Slots == {"r1", "r2"}

IdleSlot ==
    [pc |-> "idle", route |-> "", browser |-> "", token |-> NULL, action |-> "",
     req |-> NULL, walletAddress |-> <<>>, favs |-> <<>>, upd |-> NULL,
     res |-> NewRes, overlaps |-> {}, target |-> "", old |-> {},
     raced |-> FALSE]

\* the positions inside handleLink
InHandleLink == {"link_check_wallet", "link_check_user", "link_update"}

CxIdle == [stage |-> "off"]

\* the handler of request s finished: its response is what the client gets
Finish(s, res) ==
    slot' = [slot EXCEPT ![s].pc = "done", ![s].res = res]

Jwt(s) == makeSupabaseJwsFromToken(Get(slot[s].token))
UserId(s) == Get(slot[s].token).id

\* .maybeSingle(): the row, or null for no row
maybeSingle(rows) == IF rows = {} THEN NULL ELSE Some(CHOOSE r \in rows : TRUE)

(***************************************************************************)
(* A request arrives: getToken and the authentication gate                 *)
(* wallet.js 164-183, index.js 232-236, updateProfile.js 42-47             *)
(***************************************************************************)
\* a request is taken up by the first free slot (slots are interchangeable)
FreeSlot(s) ==
    /\ slot[s].pc = "idle"
    /\ \A r \in Slots : (r = "r1" /\ s = "r2") => slot[r].pc # "idle"

\* action 'challenge' is served with or without a session (wallet.js 167-175)
WalletChallenge(s, browser, token, host, method, nonce) ==
    /\ FreeSlot(s)
    /\ nreq < MaxRequests
    /\ nreq' = nreq + 1
    /\ LET userId == IF token = NULL THEN NULL ELSE Some(Get(token).id)
           payload == challengePayload(host, userId, method, now, nonce)
           res == sendJson(setChallengeCookie(NewRes, payload), 200, "challenge",
                           Some(payload))
       IN  slot' = [slot EXCEPT ![s] =
                      [IdleSlot EXCEPT !.pc = "done", !.route = "wallet",
                                       !.browser = browser,
                                       !.token = token, !.action = "challenge",
                                       !.res = res]]
    /\ UNCHANGED <<profiles, favorites, now, ticks, jar, session, cx>>

\* a variant that serves the status probe without a session
ArriveCheckOpen(s, browser, route, token, action) ==
    /\ FreeSlot(s)
    /\ nreq < MaxRequests
    /\ nreq' = nreq + 1
    /\ slot' = [slot EXCEPT ![s] =
                 IF token = NULL /\ action = "check"
                 THEN [IdleSlot EXCEPT !.pc = "done", !.route = route,
                                       !.browser = browser, !.action = action,
                                       !.res = sendJson(NewRes, 200, "check",
                                                 Some([isLinked |-> FALSE,
                                                       walletAddress |-> NULL,
                                                       linkedAt |-> NULL]))]
                 ELSE IF token = NULL
                 THEN [IdleSlot EXCEPT !.pc = "done", !.route = route,
                                       !.browser = browser, !.action = action,
                                       !.res = sendError(NewRes, 401, "NOT_AUTHENTICATED")]
                 ELSE [IdleSlot EXCEPT !.pc = "ensure_select", !.route = route,
                                       !.browser = browser,
                                       !.token = token, !.action = action]]
    /\ UNCHANGED <<profiles, favorites, now, ticks, jar, session, cx>>

\* every other request: 401 without a session, else on to ensureUserProfile
Arrive(s, browser, route, token, action) ==
    /\ FreeSlot(s)
    /\ nreq < MaxRequests
    /\ nreq' = nreq + 1
    /\ slot' = [slot EXCEPT ![s] =
                 IF token = NULL
                 THEN [IdleSlot EXCEPT !.pc = "done", !.route = route,
                                       !.browser = browser, !.action = action,
                                       !.res = sendError(NewRes, 401, "NOT_AUTHENTICATED")]
                 ELSE [IdleSlot EXCEPT !.pc = "ensure_select", !.route = route,
                                       !.browser = browser,
                                       !.token = token, !.action = action]]
    /\ UNCHANGED <<profiles, favorites, now, ticks, jar, session, cx>>

(***************************************************************************)
(* ensureUserProfile: src/lib/profile.js 7-48                              *)
(***************************************************************************)
\* token.email.split('@')[0]
EmailLocalPart(email) ==
    CASE email = "alice@example.com" -> "alice" [] OTHER -> email

\* `user_${String(token.id).slice(0, 6)}`
UserPrefixName(id) == CASE id = "g1" -> "user_g1" [] OTHER -> "user_wallet"

\* lines 23-25
DerivedUsername(token) ==
    IF token.email # NULL THEN Some(EmailLocalPart(Get(token.email)))
    ELSE IF token.name # NULL THEN token.name
    ELSE Some(UserPrefixName(token.id))

\* a variant that copies the session's wallet into the new row
insertPayloadWithWallet(token) ==
    ProfileRow(token.id, DerivedUsername(token), token.email, "",
               token.walletAddress, NULL)

\* lines 27-38
insertPayload(token) ==
    ProfileRow(token.id, DerivedUsername(token), token.email, "", NULL, NULL)

\* lines 10-21: the lookup
EnsureSelect(s) ==
    /\ slot[s].pc = "ensure_select"
    /\ LET existing == maybeSingle(SelectProfileByUser(profiles, Jwt(s), UserId(s)))
       IN  slot' = [slot EXCEPT ![s].pc =
                      IF existing # NULL THEN "handle" ELSE "ensure_insert"]
    /\ UNCHANGED <<profiles, favorites, now, ticks, nreq, jar, session, cx>>

\* lines 40-47: the insert; insertError is thrown to the route's catch
EnsureInsert(s) ==
    /\ slot[s].pc = "ensure_insert"
    /\ LET r == InsertProfile(profiles, Jwt(s), insertPayload(Get(slot[s].token)))
       IN  /\ profiles' = r.table
           /\ IF r.error # NULL
              THEN Finish(s, sendError(slot[s].res, 500, "INTERNAL_ERROR"))
              ELSE slot' = [slot EXCEPT ![s].pc = "handle"]
    /\ UNCHANGED <<favorites, now, ticks, nreq, jar, session, cx>>


(***************************************************************************)
(* The wallet handler after ensureUserProfile: wallet.js 209-455           *)
(***************************************************************************)
\* a variant that answers a caller without a profile row with an error
HandleCheckRowRequired(s) ==
    /\ slot[s].pc = "handle" /\ slot[s].route = "wallet"
    /\ slot[s].action = "check"
    /\ LET data == maybeSingle(SelectProfileByUser(profiles, Jwt(s), UserId(s)))
       IN  Finish(s, IF data = NULL
                     THEN sendError(slot[s].res, 404, "PROFILE_NOT_FOUND")
                     ELSE sendJson(slot[s].res, 200, "check",
                            Some([isLinked |-> Get(data).wallet_address # NULL,
                                  walletAddress |-> Get(data).wallet_address,
                                  linkedAt |-> Get(data).wallet_linked_at])))
    /\ UNCHANGED <<profiles, favorites, now, ticks, nreq, jar, session, cx>>

\* handleCheck: lines 312-341
HandleCheck(s) ==
    /\ slot[s].pc = "handle" /\ slot[s].route = "wallet"
    /\ slot[s].action = "check"
    /\ LET data == maybeSingle(SelectProfileByUser(profiles, Jwt(s), UserId(s)))
           body == IF data = NULL
                   THEN [isLinked |-> FALSE, walletAddress |-> NULL, linkedAt |-> NULL]
                   ELSE [isLinked |-> Get(data).wallet_address # NULL,
                         walletAddress |-> Get(data).wallet_address,
                         linkedAt |-> Get(data).wallet_linked_at]
       IN  Finish(s, sendJson(slot[s].res, 200, "check", Some(body)))
    /\ UNCHANGED <<profiles, favorites, now, ticks, nreq, jar, session, cx>>

\* handleGetProfile: lines 437-455
HandleGetProfile(s) ==
    /\ slot[s].pc = "handle" /\ slot[s].route = "wallet"
    /\ slot[s].action = "getProfile"
    /\ LET data == maybeSingle(SelectProfileByUser(profiles, Jwt(s), UserId(s)))
       IN  Finish(s, IF data = NULL
                     THEN sendError(slot[s].res, 404, "PROFILE_NOT_FOUND")
                     ELSE sendJson(slot[s].res, 200, "profile", data))
    /\ UNCHANGED <<profiles, favorites, now, ticks, nreq, jar, session, cx>>

\* a variant that clears the address and keeps the timestamp
UnlinkAddressOnly ==
    [NoSet EXCEPT !.wallet_address = Some(NULL)]

\* the SET list of handleUnlink
UnlinkSet ==
    [NoSet EXCEPT !.wallet_address = Some(NULL), !.wallet_linked_at = Some(NULL)]

\* handleUnlink with the identity claim and the row filter it is given
UnlinkAs(s, jwt, userId) ==
    /\ slot[s].pc = "handle" /\ slot[s].route = "wallet"
    /\ slot[s].action = "unlink"
    /\ LET r == UpdateProfiles(profiles, jwt, userId, UnlinkSet)
       IN  /\ profiles' = r.table
           /\ Finish(s, IF r.error # NULL
                        THEN sendError(slot[s].res, 500, "INTERNAL_ERROR")
                        ELSE IF r.data = {}
                        THEN sendError(slot[s].res, 404, "PROFILE_NOT_FOUND")
                        ELSE sendJson(slot[s].res, 200, "success", NULL))
    /\ UNCHANGED <<favorites, now, ticks, nreq, jar, session, cx>>

\* a variant that unlinks for a user id the client names
HandleUnlinkNamedUser(s) ==
    \E v \in Users : UnlinkAs(s, makeSupabaseJwsFromToken(TokenOf(v)), v)

\* handleUnlink: lines 409-434, called with the caller's client and id
HandleUnlink(s) == UnlinkAs(s, Jwt(s), UserId(s))

\* case 'link', lines 212-290: the gates, on the request the client sent.
\* keep: whether the request stays on record beside the response.
\* overlaps: the requests that are inside handleLink as this one enters it.
LinkGate(s, body, header, host, keep) ==
    /\ slot[s].pc = "handle" /\ slot[s].route = "wallet"
    /\ slot[s].action = "link"
    /\ LET g == linkGates(Get(slot[s].token), body, header, host, now)
           req == IF keep
                  THEN Some([body |-> body, header |-> header, host |-> host,
                             at |-> now])
                  ELSE NULL
       IN  slot' = [slot EXCEPT ![s] =
                      IF g.go
                      THEN [@ EXCEPT !.pc = "link_check_wallet", !.req = req,
                                     !.walletAddress = g.walletAddress,
                                     !.overlaps = {o \in Slots \ {s} :
                                                     slot[o].pc \in InHandleLink}]
                      ELSE [@ EXCEPT !.pc = "done", !.req = req,
                                     !.res = sendError(@, g.status, g.code)]]
    /\ UNCHANGED <<profiles, favorites, now, ticks, nreq, jar, session, cx>>

\* lines 290-296 (and 225-227): what the handler does when handleLink returns
AfterHandleLink(res) == clearChallengeCookie(res)

\* handleLink, lines 346-359: is the wallet on another user's profile?
LinkCheckWallet(s) ==
    /\ slot[s].pc = "link_check_wallet"
    /\ LET existingWallet ==
               maybeSingle(SelectProfileByWallet(profiles, Jwt(s), slot[s].walletAddress))
       IN  IF existingWallet # NULL /\ Get(existingWallet).user_id # UserId(s)
           THEN Finish(s, AfterHandleLink(sendError(slot[s].res, 409, "WALLET_TAKEN")))
           ELSE slot' = [slot EXCEPT ![s].pc = "link_check_user"]
    /\ UNCHANGED <<profiles, favorites, now, ticks, nreq, jar, session, cx>>

\* handleLink, lines 362-375: does the caller's profile exist?
LinkCheckUser(s) ==
    /\ slot[s].pc = "link_check_user"
    /\ LET existingUser == maybeSingle(SelectProfileByUser(profiles, Jwt(s), UserId(s)))
       IN  IF existingUser = NULL
           THEN Finish(s, AfterHandleLink(sendError(slot[s].res, 404, "PROFILE_NOT_FOUND")))
           ELSE slot' = [slot EXCEPT ![s].pc = "link_update"]
    /\ UNCHANGED <<profiles, favorites, now, ticks, nreq, jar, session, cx>>

\* a variant that writes the address and leaves the timestamp
LinkSetAddressOnly(walletAddress, nowMs) ==
    [NoSet EXCEPT !.wallet_address = Some(Some(walletAddress))]

\* handleLink, lines 380-383: the update payload
LinkSet(walletAddress, nowMs) ==
    [NoSet EXCEPT !.wallet_address = Some(Some(walletAddress)),
                  !.wallet_linked_at = Some(Some(toISOString(nowMs)))]

\* a variant that reports a unique violation like any other database error
LinkUpdateConflictAsFailure(s) ==
    /\ slot[s].pc = "link_update"
    /\ LET r == UpdateProfiles(profiles, Jwt(s), UserId(s),
                               LinkSet(slot[s].walletAddress, now))
           data == maybeSingle(r.data)
           res == IF r.error # NULL
                  THEN sendError(slot[s].res, 500, "LINK_FAILED")
                  ELSE IF data = NULL
                  THEN sendError(slot[s].res, 404, "PROFILE_NOT_FOUND")
                  ELSE sendJson(slot[s].res, 200, "success",
                                Some([walletAddress |-> Get(data).wallet_address,
                                      linkedAt |-> Get(data).wallet_linked_at]))
       IN  /\ profiles' = r.table
           /\ Finish(s, AfterHandleLink(res))
    /\ UNCHANGED <<favorites, now, ticks, nreq, jar, session, cx>>

\* handleLink, lines 378-405: the write and the response
LinkUpdate(s) ==
    /\ slot[s].pc = "link_update"
    /\ LET r == UpdateProfiles(profiles, Jwt(s), UserId(s),
                               LinkSet(slot[s].walletAddress, now))
           data == maybeSingle(r.data)
           res == IF r.error = Some("23505")
                  THEN sendError(slot[s].res, 409, "WALLET_TAKEN")
                  ELSE IF r.error # NULL
                  THEN sendError(slot[s].res, 500, "LINK_FAILED")
                  ELSE IF data = NULL
                  THEN sendError(slot[s].res, 404, "PROFILE_NOT_FOUND")
                  ELSE sendJson(slot[s].res, 200, "success",
                                Some([walletAddress |-> Get(data).wallet_address,
                                      linkedAt |-> Get(data).wallet_linked_at]))
       IN  /\ profiles' = r.table
           /\ Finish(s, AfterHandleLink(res))
    /\ UNCHANGED <<favorites, now, ticks, nreq, jar, session, cx>>


(***************************************************************************)
(* updateProfile: src/pages/api/updateProfile.js 56-140                    *)
(***************************************************************************)
\* lines 56-106: the body, then the lookup of the caller's row
UpdateProfileFind(s, username, bio) ==
    /\ slot[s].pc = "handle" /\ slot[s].route = "updateProfile"
    /\ LET found == SelectProfileByUser(profiles, Jwt(s), UserId(s))
       IN  IF found = {}
           THEN Finish(s, sendError(slot[s].res, 404, "PROFILE_NOT_FOUND"))
           ELSE slot' = [slot EXCEPT ![s].pc = "upd_update",
                                     ![s].upd = Some([username |-> username,
                                                      bio |-> bio])]
    /\ UNCHANGED <<profiles, favorites, now, ticks, nreq, jar, session, cx>>

\* lines 108-140: the update
UpdateProfileWrite(s) ==
    /\ slot[s].pc = "upd_update"
    /\ LET u == Get(slot[s].upd)
           r == UpdateProfiles(profiles, Jwt(s), UserId(s),
                               [NoSet EXCEPT !.username = Some(Some(u.username)),
                                             !.bio = Some(u.bio)])
       IN  /\ profiles' = r.table
           /\ Finish(s, IF r.error # NULL \/ r.data = {}
                        THEN sendError(slot[s].res, 500, "UPDATE_FAILED")
                        ELSE sendJson(slot[s].res, 200, "profile", maybeSingle(r.data)))
    /\ UNCHANGED <<favorites, now, ticks, nreq, jar, session, cx>>

(***************************************************************************)
(* The favorites route: src/pages/index.js 163-273                         *)
(***************************************************************************)
\* new Set(...): the first occurrence of each element, in order
RECURSIVE Dedupe(_)
Dedupe(q) ==
    IF q = <<>> THEN <<>>
    ELSE LET front == Dedupe(SubSeq(q, 1, Len(q) - 1))
             last == q[Len(q)]
         IN  IF last \in SeqToSet(front) THEN front ELSE Append(front, last)

\* the positions inside updateUserFavorites
InUpdateUserFavorites == {"fav_rpc", "fav_locked", "fav_delete", "fav_insert"}

\* GET: getUserFavorites, lines 163-174.
\* overlaps: the updates of the caller's favorites under way as it reads.
FavoritesGet(s) ==
    /\ slot[s].pc = "handle" /\ slot[s].route = "favorites"
    /\ slot[s].action = "GET"
    /\ LET data == SelectFavorites(favorites, Jwt(s), UserId(s))
           res == sendJson(slot[s].res, 200, "favorites",
                           Some({f.token_id : f \in data}))
       IN  slot' = [slot EXCEPT ![s] =
                      [@ EXCEPT !.pc = "done", !.res = res,
                                !.overlaps = {o \in Slots \ {s} :
                                                /\ slot[o].pc \in InUpdateUserFavorites
                                                /\ slot[o].target = UserId(s)}]]
    /\ UNCHANGED <<profiles, favorites, now, ticks, nreq, jar, session, cx>>

\* the token ids stored for a user
StoredFavorites(favs, userId) == {f.token_id : f \in {g \in favs : g.user_id = userId}}

\* a variant that passes the list on as the client sent it
FavoritesAsSent(list) == list

\* Array.from(new Set(favorites.map(id => String(id).toLowerCase())))
NormalizeFavorites(list) == Dedupe([i \in 1..Len(list) |-> LowerToken(list[i])])

\* the updates of user userId that are under way, other than s
UpdatesUnderWay(s, userId) ==
    {o \in Slots \ {s} : /\ slot[o].pc \in InUpdateUserFavorites
                         /\ slot[o].target = userId}

\* updateUserFavorites, lines 177-188: the list is normalized and the
\* transactional function is called; rpcFails: the call fails before it
\* reaches the function (the function is missing, the connection fails).
\* req: the list as passed; old: the caller's stored favorites as the update
\* begins; raced: whether another update of the same user ran beside this one.
UpdateUserFavorites(s, list, rpcFails) ==
    LET beside == UpdatesUnderWay(s, UserId(s))
    IN  slot' = [o \in Slots |->
                   IF o = s
                   THEN [slot[s] EXCEPT
                           !.pc = IF rpcFails THEN "fav_delete" ELSE "fav_rpc",
                           !.req = Some(list),
                           !.favs = NormalizeFavorites(list),
                           !.target = UserId(s),
                           !.old = StoredFavorites(favorites, UserId(s)),
                           !.raced = beside # {}]
                   ELSE IF o \in beside THEN [slot[o] EXCEPT !.raced = TRUE]
                   ELSE slot[o]]

\* POST, lines 251-262: the body is validated, then updateUserFavorites runs
FavoritesPost(s, list, rpcFails) ==
    /\ slot[s].pc = "handle" /\ slot[s].route = "favorites"
    /\ slot[s].action = "POST"
    /\ IF \E i \in 1..Len(list) : ~IsTokenId(list[i])
       THEN Finish(s, sendError(slot[s].res, 400, "VALIDATION_ERROR"))
       ELSE UpdateUserFavorites(s, list, rpcFails)
    /\ UNCHANGED <<profiles, favorites, now, ticks, nreq, jar, session, cx>>

\* the advisory locks that transactions other than s hold
AdvisoryLocks(s) ==
    {hashtext(slot[o].target) : o \in {x \in Slots \ {s} : slot[x].pc = "fav_locked"}}

\* the function raised: updateUserFavorites catches and falls back (line
\* 188); a client that called the function itself gets the error
ReplaceRaised(s, code) ==
    IF slot[s].route = "favorites"
    THEN slot' = [slot EXCEPT ![s].pc = "fav_delete"]
    ELSE Finish(s, sendError(slot[s].res, 403, code))

\* replace_user_favorites, part_000 120-127: the identity check, then
\* pg_advisory_xact_lock, which waits while another transaction holds the key
ReplaceEnter(s) ==
    /\ slot[s].pc = "fav_rpc"
    /\ IF jwt_sub_is_distinct_from(Jwt(s), slot[s].target)
       THEN ReplaceRaised(s, "42501")
       ELSE /\ hashtext(slot[s].target) \notin AdvisoryLocks(s)
            /\ slot' = [slot EXCEPT ![s].pc = "fav_locked"]
    /\ UNCHANGED <<profiles, favorites, now, ticks, nreq, jar, session, cx>>

\* replace_user_favorites, part_000 129-149: the statements and the commit,
\* which releases the lock
ReplaceCommit(s) ==
    /\ slot[s].pc = "fav_locked"
    /\ LET r == replace_user_favorites(favorites, profiles, Jwt(s),
                                       slot[s].target, slot[s].favs)
       IN  /\ favorites' = r.table
           /\ IF r.error # NULL THEN ReplaceRaised(s, Get(r.error))
              ELSE Finish(s, sendJson(slot[s].res, 200, "updated", NULL))
    /\ UNCHANGED <<profiles, now, ticks, nreq, jar, session, cx>>

\* the fallback, lines 189-194: delete the caller's rows
FavoritesFallbackDelete(s) ==
    /\ slot[s].pc = "fav_delete"
    /\ LET r == DeleteFavorites(favorites, Jwt(s), UserId(s))
       IN  /\ favorites' = r.table
           /\ IF slot[s].favs = <<>>
              THEN Finish(s, sendJson(slot[s].res, 200, "updated", NULL))
              ELSE slot' = [slot EXCEPT ![s].pc = "fav_insert"]
    /\ UNCHANGED <<profiles, now, ticks, nreq, jar, session, cx>>

\* the fallback, lines 196-201: insert the new rows
FavoritesFallbackInsert(s) ==
    /\ slot[s].pc = "fav_insert"
    /\ LET rows == {FavoriteRow(UserId(s), t) : t \in SeqToSet(slot[s].favs)}
           r == InsertFavorites(favorites, profiles, Jwt(s), rows)
       IN  /\ favorites' = r.table
           /\ Finish(s, IF r.error # NULL
                        THEN sendError(slot[s].res, 500, "INTERNAL_ERROR")
                        ELSE sendJson(slot[s].res, 200, "updated", NULL))
    /\ UNCHANGED <<profiles, now, ticks, nreq, jar, session, cx>>

(***************************************************************************)
(* The environment: clients and the clock                                  *)
(***************************************************************************)
\* the client receives the response; its browser applies the Set-Cookie
Deliver(s) ==
    /\ slot[s].pc = "done"
    /\ LET b == slot[s].browser
       IN  jar' = [jar EXCEPT ![b] = BrowserStore(jar[b], Get(slot[s].res.sent))]
    /\ slot' = [o \in Slots |->
                  IF o = s THEN IdleSlot
                  ELSE [slot[o] EXCEPT !.overlaps = @ \ {s}]]
    /\ UNCHANGED <<profiles, favorites, now, ticks, nreq, session, cx>>

\* time passes: the challenge lifetime, or a millisecond more
Tick(d) ==
    /\ ticks < MaxTicks
    /\ ticks' = ticks + 1
    /\ now' = now + d
    /\ UNCHANGED <<profiles, favorites, nreq, jar, slot, session, cx>>

TickSteps == {CHALLENGE_TTL_SECONDS * 1000, CHALLENGE_TTL_SECONDS * 1000 + 1}


(***************************************************************************)
(* What clients send                                                       *)
(***************************************************************************)
AppHost == Host("app.example", "3000")
EvilHost == Host("evil.example", "")
Nonces == {"n1", "n2"}
Signers == {AddrA, AddrB}

PersonalBody(sig) ==
    [method |-> Some("personal_sign"), signature |-> Some(sig), siweMessage |-> NULL]
SiweBody(msg, sig) ==
    [method |-> Some("siwe"), signature |-> Some(sig), siweMessage |-> Some(msg)]
SessionBody ==
    [method |-> Some("session"), signature |-> NULL, siweMessage |-> NULL]

LinkRequest(body, header, host) == [body |-> body, header |-> header, host |-> host]

\* the challenge a client reads out of the cookie value it holds
HeldPayload(j) == Get(Get(j).parts[2].of.v)

\* the well-behaved client: signs what the challenge it holds asks for
HonestBodies(j) ==
    IF j = NULL THEN {}
    ELSE LET p == HeldPayload(j) IN
         IF p.method = "personal_sign"
         THEN {PersonalBody(Sig(a, Get(p.message))) : a \in Signers}
         ELSE {SiweBody(SiweText(Some(p.domain), a, Some(p.nonce), NULL),
                        Sig(a, SiweText(Some(p.domain), a, Some(p.nonce), NULL)))
                 : a \in Signers}

\* link requests of the full system: a client presents the cookie of its own
\* or of another browser, signed for honestly, or asks for the session path
CoreLinkRequests(b) ==
    {LinkRequest(SessionBody, BrowserHeader(jar[b]), AppHost)}
    \cup {LinkRequest(body, BrowserHeader(jar[v]), AppHost) :
            body \in HonestBodies(jar[b]), v \in Users}

LinkCore(s) ==
    /\ slot[s].pc = "handle"
    /\ \E r \in CoreLinkRequests(slot[s].browser) :
          LinkGate(s, r.body, r.header, r.host, FALSE)

UsernameInputs == {"alice", "Wallet 0000"}
FavoriteInputs == {<<>>, <<"eth", "btc", "eth">>}

(***************************************************************************)
(* The system: every route, two requests in flight                         *)
(***************************************************************************)
Init ==
    /\ profiles = {}
    /\ favorites = {}
    /\ now = 0
    /\ ticks = 0
    /\ nreq = 0
    /\ jar = [u \in Users |-> NULL]
    /\ slot = [s \in Slots |-> IdleSlot]
    /\ session = [u \in Users |-> NULL]
    /\ cx = CxIdle

\* in the full system every request carries its user's session
SessionOf(b) == {Some(TokenOf(b))}

Next ==
    \/ \E s \in Slots, b \in Users : \E t \in SessionOf(b),
          m \in {"siwe", "personal_sign"} :
            WalletChallenge(s, b, t, AppHost, m, "n1")
    \/ \E s \in Slots, b \in Users : \E t \in SessionOf(b),
          a \in {"check", "link", "unlink", "getProfile"} :
            Arrive(s, b, "wallet", t, a)
    \/ \E s \in Slots, b \in Users : \E t \in SessionOf(b), a \in {"GET", "POST"} :
            Arrive(s, b, "favorites", t, a)
    \/ \E s \in Slots, b \in Users : \E t \in SessionOf(b) :
            Arrive(s, b, "updateProfile", t, "POST")
    \/ \E s \in Slots : EnsureSelect(s)
    \/ \E s \in Slots : EnsureInsert(s)
    \/ \E s \in Slots : HandleCheck(s)
    \/ \E s \in Slots : HandleGetProfile(s)
    \/ \E s \in Slots : HandleUnlink(s)
    \/ \E s \in Slots : LinkCore(s)
    \/ \E s \in Slots : LinkCheckWallet(s)
    \/ \E s \in Slots : LinkCheckUser(s)
    \/ \E s \in Slots : LinkUpdate(s)
    \/ \E s \in Slots, u \in UsernameInputs : UpdateProfileFind(s, u, "bio")
    \/ \E s \in Slots : UpdateProfileWrite(s)
    \/ \E s \in Slots : FavoritesGet(s)
    \/ \E s \in Slots, l \in FavoriteInputs, f \in BOOLEAN : FavoritesPost(s, l, f)
    \/ \E s \in Slots : ReplaceEnter(s)
    \/ \E s \in Slots : ReplaceCommit(s)
    \/ \E s \in Slots : FavoritesFallbackDelete(s)
    \/ \E s \in Slots : FavoritesFallbackInsert(s)
    \/ \E s \in Slots : Deliver(s)

Spec == Init /\ [][Next]_vars


(***************************************************************************)
(* The link gates on their own: one request at a time, the clock running,  *)
(* and clients that send whatever they can put together                    *)
(***************************************************************************)
Hosts == {AppHost, EvilHost}
AnySession(b) == {NULL, Some(TokenOf(b))}

\* an expiration time a client may write into its SIWE message
SiweExpiry == toISOString(CHALLENGE_TTL_SECONDS * 1000)

\* SIWE texts a client can write, given the challenge it reads in the cookie:
\* the honest text, and texts that differ from it in domain, nonce, account,
\* the case of the account's digits, and expiration time
SiweTexts(p) ==
    {SiweText(d, a, n, NULL) :
        d \in {Some(p.domain), Some(getDomainFromReq(EvilHost))},
        a \in Signers,
        n \in {Some(p.nonce), Some("n2")}}
    \cup {SiweText(Some(p.domain), a, Some(p.nonce), Some(SiweExpiry)) : a \in Signers}
    \cup {SiweText(NULL, AddrA, Some(p.nonce), NULL),
          SiweText(Some(p.domain), AddrA, NULL, NULL),
          SiweText(Some(p.domain), ToLowerCase(AddrA), Some(p.nonce), NULL)}

\* what a client can send with the cookie value j in front of it; its SIWE
\* texts are signed by account AddrA or carry no signature at all
RichBodies(j) ==
    {SessionBody,
     [method |-> NULL, signature |-> NULL, siweMessage |-> NULL],
     [method |-> Some("personal_sign"), signature |-> NULL, siweMessage |-> NULL],
     [method |-> Some("siwe"), signature |-> Some(BadSig), siweMessage |-> NULL],
     [method |-> Some("eip712"), signature |-> Some(BadSig), siweMessage |-> NULL],
     PersonalBody(BadSig)}
    \cup (IF j = NULL THEN {}
          ELSE LET p == HeldPayload(j) IN
               UNION {{SiweBody(m, g) : g \in {Sig(AddrA, m), BadSig}}
                        : m \in SiweTexts(p)}
               \cup (IF p.message = NULL THEN {}
                     ELSE {PersonalBody(Sig(a, Get(p.message))) : a \in Signers}))

\* the client of browser b presents its own cookie or another browser's
RichLinkRequests(b) ==
    UNION {{LinkRequest(body, BrowserHeader(jar[v]), h) :
               body \in RichBodies(jar[v]), h \in Hosts} : v \in Users}

LinkRich(s) ==
    /\ slot[s].pc = "handle"
    /\ \E r \in RichLinkRequests(slot[s].browser) :
          LinkGate(s, r.body, r.header, r.host, TRUE)

One == {"r1"}
MaxGateRequests == 2

NextGates ==
    \/ \E s \in One, b \in Users,
          m \in {"siwe", "personal_sign"} : \E t \in AnySession(b) :
            nreq < MaxGateRequests /\ WalletChallenge(s, b, t, AppHost, m, "n1")
    \/ \E s \in One, b \in Users : \E t \in AnySession(b) :
            nreq < MaxGateRequests /\ Arrive(s, b, "wallet", t, "link")
    \/ \E s \in One : EnsureSelect(s)
    \/ \E s \in One : EnsureInsert(s)
    \/ \E s \in One : LinkRich(s)
    \/ \E s \in One : LinkCheckWallet(s)
    \/ \E s \in One : LinkCheckUser(s)
    \/ \E s \in One : LinkUpdate(s)
    \/ \E s \in One : Deliver(s)
    \/ \E d \in TickSteps : Tick(d)

SpecGates == Init /\ [][NextGates]_vars


(***************************************************************************)
(* The challenge codec on its own: a payload is written into a cookie, the *)
(* client may put another cookie in its place, the server reads it         *)
(***************************************************************************)
CodecPayloads ==
    {challengePayload(h, u, m, t, n) :
        h \in Hosts, u \in {NULL} \cup {Some(x) : x \in Users},
        m \in {"siwe", "personal_sign"}, t \in {0, 1}, n \in Nonces}

CodecTimes ==
    {0, 1, CHALLENGE_TTL_SECONDS * 1000, CHALLENGE_TTL_SECONDS * 1000 + 1,
     CHALLENGE_TTL_SECONDS * 1000 + 2}

\* payloads a client would like the server to read instead of c
AlteredPayloads(c) ==
    ({[c EXCEPT !.userId = u] : u \in {NULL} \cup {Some(x) : x \in Users}}
        \cup {[c EXCEPT !.expiresAt =
                  Some(toISOString(getTime(Get(@)) + CHALLENGE_TTL_SECONDS * 1000))]})
    \ {c}

AttackerKey == "attacker-key"

\* Cookie headers a client can build from the cookie value v it was given,
\* without the server's secret.  Each is named for what was done.
ForgedHeaders(v) ==
    LET json == base64urlDecodeToString(v[2])
        c == Get(json.v)
        cookie(parts) == <<KV(CHALLENGE_COOKIE, encodeURIComponent(parts))>>
    IN  {[how |-> "none", header |-> <<>>],
         [how |-> "other cookies only", header |-> <<NoEqEntry, EmptyEntry>>],
         [how |-> "empty value", header |-> cookie(EmptyString)],
         [how |-> "malformed escape",
          header |-> <<KV(CHALLENGE_COOKIE, MalformedEscape)>>],
         [how |-> "malformed escape first",
          header |-> <<KV(CHALLENGE_COOKIE, MalformedEscape)>> \o cookie(v)],
         [how |-> "two parts", header |-> cookie(<<v[1], v[2]>>)],
         [how |-> "version", header |-> cookie(<<Str("v2"), v[2], v[3]>>)],
         [how |-> "mac", header |-> cookie(<<v[1], v[2], hmacWith(AttackerKey, json)>>)],
         [how |-> "mac of garbage",
          header |-> cookie(<<v[1], base64urlEncode(GarbageText),
                              hmacWith(AttackerKey, GarbageText)>>)],
         [how |-> "payload text", header |-> cookie(<<v[1], base64Variant(v[2]), v[3]>>)]}
    \cup {[how |-> "payload",
           header |-> cookie(<<v[1], base64urlEncode(JSONstringify(d)), v[3]>>)]
            : d \in AlteredPayloads(c)}
    \cup {[how |-> "payload and mac",
           header |-> cookie(<<v[1], base64urlEncode(JSONstringify(d)),
                               hmacWith(AttackerKey, JSONstringify(d))>>)]
            : d \in AlteredPayloads(c)}

\* values only the holder of the secret can build: a MAC over a text that is
\* no JSON document
SignedGarbage ==
    <<KV(CHALLENGE_COOKIE,
         encodeURIComponent(<<Str("v1"), base64urlEncode(GarbageText),
                              hmacSign(GarbageText)>>))>>

\* setChallengeCookie(res, c), and the browser storing what it set
CodecSet(c) ==
    /\ cx.stage = "off"
    /\ LET res == setChallengeCookie(NewRes, c)
           held == BrowserStore(NULL, res)
       IN  cx' = [stage |-> "set", c |-> c, how |-> "as set",
                  header |-> BrowserHeader(held)]
    /\ UNCHANGED <<profiles, favorites, now, ticks, nreq, jar, slot, session>>

\* the client replaces the cookie it was given
CodecForge ==
    /\ cx.stage = "set"
    /\ \E f \in ForgedHeaders(Get(decodeURIComponent(cx.header[1].v).v)) :
          cx' = [cx EXCEPT !.stage = "forged", !.how = f.how, !.header = f.header]
    /\ UNCHANGED <<profiles, favorites, now, ticks, nreq, jar, slot, session>>

\* a cookie made with the secret that carries no JSON document
CodecSignedGarbage ==
    /\ cx.stage = "set"
    /\ cx' = [cx EXCEPT !.stage = "signed", !.how = "signed garbage",
                        !.header = SignedGarbage]
    /\ UNCHANGED <<profiles, favorites, now, ticks, nreq, jar, slot, session>>

\* readChallengeCookie(req) at time nowMs
CodecRead(nowMs) ==
    /\ cx.stage \in {"set", "forged", "signed"}
    /\ cx' = [stage |-> "read", c |-> cx.c, how |-> cx.how, header |-> cx.header,
              at |-> nowMs, out |-> readChallengeCookie(cx.header, nowMs)]
    /\ UNCHANGED <<profiles, favorites, now, ticks, nreq, jar, slot, session>>

NextCodec ==
    \/ \E c \in CodecPayloads : CodecSet(c)
    \/ CodecForge
    \/ CodecSignedGarbage
    \/ \E t \in CodecTimes : CodecRead(t)

SpecCodec == Init /\ [][NextCodec]_vars


(***************************************************************************)
(* Properties of the challenge codec (SpecCodec)                           *)
(***************************************************************************)
FailureCodes ==
    {"NO_CHALLENGE", "INVALID_COOKIE", "TAMPERED", "INVALID_JSON", "EXPIRED"}

\* what a client did to the payload or the MAC of its cookie without the secret
AlteredWithoutSecret ==
    {"mac", "mac of garbage", "payload", "payload and mac", "payload text"}

\* C8: reading the challenge cookie either accepts it or fails with exactly
\* one of the five codes NO_CHALLENGE, INVALID_COOKIE, TAMPERED, INVALID_JSON,
\* EXPIRED, and a cookie whose payload or MAC was altered without the secret
\* is never accepted.
C8_DecodeFailsWithOneOfFiveCodes ==
    cx.stage = "read" =>
        /\ ~cx.out.threw
        /\ cx.out.ok \/ cx.out.code \in FailureCodes
        /\ cx.how \in AlteredWithoutSecret => ~cx.out.ok

Sent(s) == Get(slot[s].res.sent)

\* request s is a link request that passed the gates for some address and
\* has been answered
AnsweredLink(s) ==
    /\ slot[s].pc = "done"
    /\ slot[s].route = "wallet" /\ slot[s].action = "link"
    /\ slot[s].walletAddress # <<>>

\* C1: when two different users' link requests for the same address were
\* inside handleLink together and both have been answered, exactly one was
\* answered with success and the other with 409 WALLET_TAKEN.
C1_OneLinkWins ==
    \A a, b \in Slots :
        (/\ a # b
         /\ AnsweredLink(a) /\ AnsweredLink(b)
         /\ b \in slot[a].overlaps
         /\ slot[a].token # slot[b].token
         /\ slot[a].walletAddress = slot[b].walletAddress)
        => \/ Sent(a).status = 200 /\ Sent(b).status = 409
              /\ Sent(b).code = "WALLET_TAKEN"
           \/ Sent(b).status = 200 /\ Sent(a).status = 409
              /\ Sent(a).code = "WALLET_TAKEN"

\* both users' requests for the account of AddrB answered: one linked, the
\* other refused, and the address is on the winner's row only
C1_Witness ==
    /\ AnsweredLink("r1") /\ AnsweredLink("r2")
    /\ "r1" \in slot["r2"].overlaps
    /\ slot["r1"].token # slot["r2"].token
    /\ slot["r1"].walletAddress = ToLowerCase(AddrB)
    /\ slot["r2"].walletAddress = ToLowerCase(AddrB)
    /\ Sent("r2").status = 200
    /\ Sent("r1").code = "WALLET_TAKEN"
    /\ \E r \in profiles : /\ r.wallet_address = Some(ToLowerCase(AddrB))
                           /\ r.user_id = UserId("r2")

\* C2: every wallet_address in profiles that is not null is lowercase, and
\* no two rows hold the same one.
C2_WalletLowercaseUnique ==
    \A r \in profiles :
        r.wallet_address # NULL =>
            /\ \A i \in 1..Len(Get(r.wallet_address)) :
                  Get(r.wallet_address)[i] \notin UpperHex
            /\ \A q \in profiles : q # r => q.wallet_address # r.wallet_address

\* both users hold a wallet; the one recovered from a signature had capitals
C2_Witness ==
    /\ \E r \in profiles : r.user_id = "g1"
                           /\ r.wallet_address = Some(ToLowerCase(AddrA))
    /\ \E r \in profiles : r.user_id = "wallet:b"
                           /\ r.wallet_address = Some(ToLowerCase(AddrB))
    /\ AddrA # ToLowerCase(AddrA)

RowsOf(table, v) == {r \in table : r.user_id = v}
Stepping(s) == slot'[s] # slot[s]

\* C3: a step that changes a user's rows in profiles or favorites (link,
\* unlink, profile update, favorites replace, profile creation) is a step of
\* a request authenticated as that user.
C3_NoCrossUserMutation ==
    [][\A v \in Users :
          (\/ RowsOf(profiles', v) # RowsOf(profiles, v)
           \/ RowsOf(favorites', v) # RowsOf(favorites, v))
          => \E s \in Slots : Stepping(s) /\ slot[s].token = Some(TokenOf(v))]_vars

\* one user has linked a wallet and changed the profile, the other has
\* favorites, and a request of the first is being handled
C3_Witness ==
    /\ \E r \in profiles : r.user_id = "wallet:b" /\ r.wallet_address # NULL
    /\ RowsOf(favorites, "g1") # {}
    /\ \E s \in Slots : slot[s].token = Some(WalletToken) /\ slot[s].action = "unlink"
                        /\ slot[s].pc = "done" /\ Sent(s).status = 200

WalletFieldsOf(table, v) ==
    {<<r.wallet_address, r.wallet_linked_at>> : r \in RowsOf(table, v)}

\* C4: wallet_address and wallet_linked_at of a user's row change only in a
\* step of a link or unlink request; a row is created with both null; the
\* profile update, favorites, check and getProfile requests leave them.
C4_WalletFieldsFrame ==
    [][\A v \in Users :
          WalletFieldsOf(profiles', v) # WalletFieldsOf(profiles, v)
          => IF WalletFieldsOf(profiles, v) = {}
             THEN WalletFieldsOf(profiles', v) = {<<NULL, NULL>>}
             ELSE \E s \in Slots : /\ Stepping(s)
                                   /\ slot[s].route = "wallet"
                                   /\ slot[s].action \in {"link", "unlink"}]_vars

\* a row that was created by a wallet session, then linked, and then had its
\* profile updated with the wallet still on it
C4_Witness ==
    \E r \in profiles :
        /\ r.user_id = "wallet:b"
        /\ r.wallet_address = Some(ToLowerCase(AddrB))
        /\ r.bio = "bio"


(***************************************************************************)
(* Properties of the link gates (SpecGates)                                *)
(***************************************************************************)
\* what request r of user `caller' presents: the challenge in its cookie
Presents(r) == HeldPayload(Some(r.header[1].v))

SignatureBased(r) ==
    /\ r.body.method \in {Some("siwe"), Some("personal_sign")}
    /\ r.header # <<>>

\* r carries the caller's own unexpired siwe challenge, and a SIWE text with
\* the challenge's nonce, signed by the account it names, but another domain
OtherDomainSigned(r, caller) ==
    /\ r.header # <<>>
    /\ r.body.method = Some("siwe")
    /\ Presents(r).method = "siwe"
    /\ Presents(r).userId = Some(caller)
    /\ r.at <= getTime(Get(Presents(r).expiresAt))
    /\ r.body.siweMessage # NULL
    /\ LET m == Get(r.body.siweMessage)
       IN  /\ m.domain # NULL /\ Get(m.domain) # Presents(r).domain
           /\ m.nonce = Some(Presents(r).nonce)
           /\ r.body.signature = Some(Sig(m.address, m))

\* the gate step of request s: it leaves "handle" with its request on record
GateStep(s) == slot[s].pc = "handle" /\ slot'[s].req # NULL

\* C5: a link request with the caller's siwe challenge for domain D and a
\* validly signed SIWE text with the right nonce that names another domain is
\* answered 400 DOMAIN_MISMATCH, and the caller's wallet fields stay as they
\* were.
C5_SiweDomainMismatch ==
    [][\A s \in Slots :
          (GateStep(s) /\ OtherDomainSigned(Get(slot'[s].req), UserId(s)))
          => /\ slot'[s].pc = "done"
             /\ Get(slot'[s].res.sent).status = 400
             /\ Get(slot'[s].res.sent).code = "DOMAIN_MISMATCH"
             /\ WalletFieldsOf(profiles', UserId(s))
                    = WalletFieldsOf(profiles, UserId(s))]_vars

\* such a request sent to the application's own host, answered
C5_Witness ==
    \E s \in Slots :
        /\ slot[s].pc = "done" /\ slot[s].req # NULL
        /\ OtherDomainSigned(Get(slot[s].req), UserId(s))
        /\ Get(slot[s].req).host = AppHost
        /\ Sent(s).code = "DOMAIN_MISMATCH"

\* C6: a challenge expires 10 minutes after it was issued: a signature-based
\* link request presenting a cookie whose expiresAt is before the current
\* time is answered 400 CHALLENGE_INVALID and handleLink is not entered; up
\* to that instant the cookie the server issued is not refused.  (The reason
\* EXPIRED travels in the message text; a cookie the server issued is
\* refused as CHALLENGE_INVALID for no other reason.)
C6_ExpiresAfterTenMinutes ==
    \A s \in Slots :
        (slot[s].req # NULL /\ SignatureBased(Get(slot[s].req)))
        => LET r == Get(slot[s].req)
               issued == getTime(Presents(r).issuedAt)
               expires == getTime(Get(Presents(r).expiresAt))
           IN  /\ expires = issued + 10 * 60 * 1000
               /\ r.at > expires
                    => /\ slot[s].pc = "done"
                       /\ Sent(s).status = 400
                       /\ Sent(s).code = "CHALLENGE_INVALID"
               /\ r.at <= expires
                    => ~(slot[s].pc = "done" /\ Sent(s).code = "CHALLENGE_INVALID")

\* the caller's own challenge, signed for correctly, one millisecond late
C6_Witness ==
    \E s \in Slots :
        /\ slot[s].pc = "done" /\ slot[s].req # NULL
        /\ LET r == Get(slot[s].req)
           IN  /\ SignatureBased(r)
               /\ Presents(r).userId = Some(UserId(s))
               /\ Presents(r).method = "personal_sign"
               /\ r.body = PersonalBody(Sig(AddrA, Get(Presents(r).message)))
               /\ r.host = AppHost
               /\ r.at = getTime(Get(Presents(r).expiresAt)) + 1
        /\ Sent(s).code = "CHALLENGE_INVALID"

\* C7: a signature-based link request presenting an unexpired challenge that
\* is bound to another user, or to no user, is answered 400
\* CHALLENGE_MISMATCH and handleLink is not entered.
C7_ChallengeBoundToCaller ==
    \A s \in Slots :
        (/\ slot[s].req # NULL
         /\ SignatureBased(Get(slot[s].req))
         /\ Get(slot[s].req).at <= getTime(Get(Presents(Get(slot[s].req)).expiresAt))
         /\ Presents(Get(slot[s].req)).userId # Some(UserId(s)))
        => /\ slot[s].pc = "done"
           /\ Sent(s).status = 400
           /\ Sent(s).code = "CHALLENGE_MISMATCH"

\* a challenge issued to a client without a session, signed for correctly
\* and presented by a signed-in user
C7_Witness ==
    \E s \in Slots :
        /\ slot[s].pc = "done" /\ slot[s].req # NULL
        /\ LET r == Get(slot[s].req)
           IN  /\ SignatureBased(r)
               /\ Presents(r).userId = NULL
               /\ Presents(r).method = "personal_sign"
               /\ r.body = PersonalBody(Sig(AddrA, Get(Presents(r).message)))
               /\ r.host = AppHost
               /\ r.at <= getTime(Get(Presents(r).expiresAt))
        /\ Sent(s).code = "CHALLENGE_MISMATCH"

\* C10: the success response of a link request carries the Set-Cookie header
\* that clears the wallet_challenge cookie (empty value, Max-Age=0).
C10_SuccessClearsCookie ==
    \A s \in Slots :
        (/\ slot[s].pc = "done"
         /\ slot[s].route = "wallet" /\ slot[s].action = "link"
         /\ Sent(s).status = 200)
        => Sent(s).setCookie = Some(clearChallengeCookieHeader)

\* the codes a link request can be rejected with once its gates run
LinkRejections ==
    {"CHALLENGE_INVALID", "CHALLENGE_MISMATCH", "CHALLENGE_METHOD_MISMATCH",
     "DOMAIN_MISMATCH", "NONCE_MISMATCH", "SIGNATURE_INVALID",
     "ADDRESS_MISMATCH", "WALLET_TAKEN", "PROFILE_NOT_FOUND"}

\* C11: the response of a link request clears the wallet_challenge cookie on
\* every terminal outcome: success and each of the rejections
\* CHALLENGE_INVALID, CHALLENGE_MISMATCH, CHALLENGE_METHOD_MISMATCH,
\* DOMAIN_MISMATCH, NONCE_MISMATCH, SIGNATURE_INVALID, ADDRESS_MISMATCH,
\* WALLET_TAKEN, PROFILE_NOT_FOUND.
C11_EveryOutcomeClearsCookie ==
    \A s \in Slots :
        (/\ slot[s].pc = "done"
         /\ slot[s].route = "wallet" /\ slot[s].action = "link"
         /\ Sent(s).status = 200 \/ Sent(s).code \in LinkRejections)
        => Sent(s).setCookie = Some(clearChallengeCookieHeader)


(***************************************************************************)
(* Linking again: the link and unlink actions of the wallet route, two     *)
(* requests in flight, every request kept on record beside its response    *)
(***************************************************************************)
LinkOnRecord(s) ==
    /\ slot[s].pc = "handle"
    /\ \E r \in CoreLinkRequests(slot[s].browser) :
          LinkGate(s, r.body, r.header, r.host, TRUE)

NextReplay ==
    \/ \E s \in Slots, b \in Users : \E t \in SessionOf(b),
          m \in {"siwe", "personal_sign"} :
            WalletChallenge(s, b, t, AppHost, m, "n1")
    \/ \E s \in Slots, b \in Users : \E t \in SessionOf(b),
          a \in {"link", "unlink"} :
            Arrive(s, b, "wallet", t, a)
    \/ \E s \in Slots : EnsureSelect(s)
    \/ \E s \in Slots : EnsureInsert(s)
    \/ \E s \in Slots : HandleUnlink(s)
    \/ \E s \in Slots : LinkOnRecord(s)
    \/ \E s \in Slots : LinkCheckWallet(s)
    \/ \E s \in Slots : LinkCheckUser(s)
    \/ \E s \in Slots : LinkUpdate(s)
    \/ \E s \in Slots : Deliver(s)

SpecReplay == Init /\ [][NextReplay]_vars

\* request s is a signature-based link request answered with success
LinkedBySignature(s) ==
    /\ slot[s].pc = "done"
    /\ slot[s].route = "wallet" /\ slot[s].action = "link"
    /\ slot[s].req # NULL
    /\ SignatureBased(Get(slot[s].req))
    /\ Sent(s).status = 200

\* C12: a challenge is consumed at most once: when a signature-based link
\* request has been answered with success, no link request that enters the
\* gates afterwards with the same cookie value and the same signature is
\* answered with success.
C12_ChallengeConsumedOnce ==
    \A a, b \in Slots :
        (/\ a # b
         /\ LinkedBySignature(a) /\ LinkedBySignature(b)
         /\ a \notin slot[b].overlaps /\ b \notin slot[a].overlaps)
        => \/ Get(slot[a].req).header # Get(slot[b].req).header
           \/ Get(slot[a].req).body.signature # Get(slot[b].req).body.signature

(***************************************************************************)
(* Replacing favorites, one call at a time: updateUserFavorites with the   *)
(* lists its callers may pass, and the database function called on its own *)
(***************************************************************************)
RawFavoriteInputs == {<<>>, <<"eth">>, <<"BTC", "btc", "eth">>}

\* updateUserFavorites(supabaseClient, userId, favorites) called with a list
\* that did not pass through the route's validation
UpdateUserFavoritesCalled(s, list, rpcFails) ==
    /\ slot[s].pc = "handle" /\ slot[s].route = "favorites"
    /\ slot[s].action = "POST"
    /\ UpdateUserFavorites(s, list, rpcFails)
    /\ UNCHANGED <<profiles, favorites, now, ticks, nreq, jar, session, cx>>

\* a database client calls replace_user_favorites(p_user_id, p_token_ids)
\* under the JWT minted for `token'
CallReplaceUserFavorites(s, token, p_user_id, p_token_ids) ==
    /\ FreeSlot(s)
    /\ nreq < MaxRequests
    /\ nreq' = nreq + 1
    /\ slot' = [slot EXCEPT ![s] =
                 [IdleSlot EXCEPT !.pc = "fav_rpc", !.route = "rpc",
                                  !.browser = token.id, !.token = Some(token),
                                  !.action = "replace_user_favorites",
                                  !.favs = p_token_ids, !.target = p_user_id,
                                  !.old = StoredFavorites(favorites, p_user_id)]]
    /\ UNCHANGED <<profiles, favorites, now, ticks, jar, session, cx>>

NextReplace ==
    \/ \E s \in One, b \in Users : \E t \in SessionOf(b), a \in {"GET", "POST"} :
            Arrive(s, b, "favorites", t, a)
    \/ \E s \in One, t \in Tokens, u \in Users, l \in FavoriteInputs :
            CallReplaceUserFavorites(s, t, u, l)
    \/ \E s \in One : EnsureSelect(s)
    \/ \E s \in One : EnsureInsert(s)
    \/ \E s \in One : FavoritesGet(s)
    \/ \E s \in One, l \in RawFavoriteInputs, f \in BOOLEAN :
            UpdateUserFavoritesCalled(s, l, f)
    \/ \E s \in One : ReplaceEnter(s)
    \/ \E s \in One : ReplaceCommit(s)
    \/ \E s \in One : FavoritesFallbackDelete(s)
    \/ \E s \in One : FavoritesFallbackInsert(s)
    \/ \E s \in One : Deliver(s)

SpecReplace == Init /\ [][NextReplace]_vars

\* request s called updateUserFavorites and has been answered
AnsweredUpdate(s) ==
    /\ slot[s].pc = "done"
    /\ slot[s].route = "favorites" /\ slot[s].action = "POST"
    /\ slot[s].req # NULL

\* the set a list stands for: its ids in lower case
LowercasedSet(list) == {LowerToken(list[i]) : i \in 1..Len(list)}

\* C13: after a successful replace of u's favorites by the list L, the stored
\* favorites of u are exactly the lowercased ids of L without duplicates (none
\* when L is empty); a replace by a list whose set is already stored succeeds
\* and leaves the stored set as it was.
C13_ReplaceStoresNormalizedSet ==
    \A s \in Slots :
        AnsweredUpdate(s) =>
            LET L == Get(slot[s].req)
                stored == StoredFavorites(favorites, UserId(s))
            IN  /\ Sent(s).status = 200 => stored = LowercasedSet(L)
                /\ slot[s].old = LowercasedSet(L)
                     => Sent(s).status = 200 /\ stored = slot[s].old

\* ["BTC", "btc", "eth"] replaced by itself: answered 200, {"btc", "eth"} stored
C13_Witness ==
    /\ AnsweredUpdate("r1")
    /\ Get(slot["r1"].req) = <<"BTC", "btc", "eth">>
    /\ slot["r1"].old = {"btc", "eth"}
    /\ Sent("r1").status = 200
    /\ StoredFavorites(favorites, UserId("r1")) = {"btc", "eth"}

\* C17: replace_user_favorites called with a target user that differs from
\* the subject of the caller's JWT fails with Forbidden (42501) in the step
\* that enters it: the call is over without having taken the advisory lock,
\* and no favorites row of any user was deleted or inserted.
C17_ForbiddenBeforeLock ==
    [][\A s \in Slots :
         (/\ slot[s].pc = "fav_rpc"
          /\ Jwt(s).sub # slot[s].target
          /\ Stepping(s))
         => /\ favorites' = favorites
            /\ slot'[s].pc = "done"
            /\ Get(slot'[s].res.sent).code = "42501"
            /\ AdvisoryLocks(s)' = AdvisoryLocks(s)]_vars

\* a caller asked for another user's favorites, which exist, to be replaced
\* and was refused
C17_Witness ==
    /\ slot["r1"].pc = "done" /\ slot["r1"].route = "rpc"
    /\ Jwt("r1").sub # slot["r1"].target
    /\ Sent("r1").code = "42501"
    /\ StoredFavorites(favorites, slot["r1"].target) # {}
    /\ StoredFavorites(favorites, slot["r1"].target) = slot["r1"].old

(***************************************************************************)
(* The favorites route under concurrent requests: two requests in flight,  *)
(* users g1 and wallet:b, and a user g2 whose id shares g1's lock key      *)
(***************************************************************************)
CollidingToken ==
    [id |-> "g2", email |-> NULL, name |-> Some("Bob"), walletAddress |-> NULL]

FavoriteCallers == Tokens \cup {CollidingToken}

SingleFavoriteInputs == {<<"eth">>, <<"btc">>}

NextFavorites ==
    \/ \E s \in Slots, t \in FavoriteCallers, a \in {"GET", "POST"} :
            Arrive(s, "g1", "favorites", Some(t), a)
    \/ \E s \in Slots : EnsureSelect(s)
    \/ \E s \in Slots : EnsureInsert(s)
    \/ \E s \in Slots : FavoritesGet(s)
    \/ \E s \in Slots, l \in SingleFavoriteInputs, f \in BOOLEAN :
            FavoritesPost(s, l, f)
    \/ \E s \in Slots : ReplaceEnter(s)
    \/ \E s \in Slots : ReplaceCommit(s)
    \/ \E s \in Slots : FavoritesFallbackDelete(s)
    \/ \E s \in Slots : FavoritesFallbackInsert(s)
    \/ \E s \in Slots : Deliver(s)

SpecFavorites == Init /\ [][NextFavorites]_vars

\* C14: two replace calls for the same user serialize: once both have been
\* answered, the user's stored favorites are the normalized list of the one
\* or of the other, never a mixture, whatever the outcome of the remote call.
C14_SameUserUpdatesSerialize ==
    \A a, b \in Slots :
        (/\ a # b
         /\ AnsweredUpdate(a) /\ AnsweredUpdate(b)
         /\ UserId(a) = UserId(b))
        => StoredFavorites(favorites, UserId(a))
             \in {LowercasedSet(Get(slot[a].req)), LowercasedSet(Get(slot[b].req))}

\* C15: replace calls for different users never block each other: while one
\* call holds its advisory lock, a call for another user that has passed the
\* identity check finds its own lock free.
C15_DifferentUsersNeverBlock ==
    \A a, b \in Slots :
        (/\ a # b
         /\ slot[a].pc = "fav_locked" /\ slot[b].pc = "fav_rpc"
         /\ slot[a].target # slot[b].target
         /\ Jwt(b).sub = slot[b].target)
        => hashtext(slot[b].target) \notin AdvisoryLocks(b)

\* C16: a read of u's favorites made while an update of u from S_old to
\* S_new is under way (and no other update of u ran beside that one) returns
\* S_old or S_new.
C16_ReadSeesOldOrNew ==
    \A s, o \in Slots :
        (/\ slot[s].pc = "done"
         /\ slot[s].route = "favorites" /\ slot[s].action = "GET"
         /\ o \in slot[s].overlaps
         /\ ~slot[o].raced)
        => Get(Sent(s).data)
             \in {slot[o].old, LowercasedSet(Get(slot[o].req))}

(***************************************************************************)
(* Sign-in: src/pages/api/auth/[...nextauth].js                            *)
(***************************************************************************)
\* readChallengeCookie of the auth route, lines 21-46: the loop decodes every
\* entry named wallet_challenge and keeps the last one
readChallengeCookieAtSignIn(header, nowMs) ==
    LET m == MatchingEntries(header, CHALLENGE_COOKIE)
    IN  IF \E i \in m : decodeURIComponent(header[i].v).threw
        THEN Thrown("URIError")
        ELSE decodeChallenge(IF m = {} THEN [threw |-> FALSE, v |-> NULL]
                             ELSE decodeURIComponent(header[Max(m)].v), nowMs)

\* `wallet:${wallet}` on the model's accounts
WalletUserId(wallet) ==
    CASE wallet = ToLowerCase(AddrA) -> "wallet:a"
      [] wallet = ToLowerCase(AddrB) -> "wallet:b"
      [] OTHER -> "wallet:junk"

\* user.id?.startsWith('wallet:')
StartsWithWallet(id) == id \in {"wallet:a", "wallet:b", "wallet:junk"}

\* `Wallet ${wallet.slice(2, 6)}`
WalletUserName(wallet) ==
    IF SubSeq(wallet, 3, 6) = <<"0", "0", "0", "0">> THEN "Wallet 0000"
    ELSE "Wallet ...."

\* authorize, lines 141-149: the user of a wallet sign-in
WalletUser(recovered) ==
    LET wallet == ToLowerCase(recovered)
    IN  [id |-> WalletUserId(wallet), name |-> Some(WalletUserName(wallet)),
         email |-> NULL, walletAddress |-> Some(wallet)]

\* the user and the profile Google hands over for the account of id g1
GoogleUser ==
    [id |-> "g1", name |-> Some("Alice"), email |-> Some("alice@example.com"),
     walletAddress |-> NULL]
GoogleProfile == [sub |-> "g1", email |-> Some("alice@example.com"),
                  name |-> Some("Alice")]

NoUser(error) == [ok |-> FALSE, error |-> error, user |-> NULL]
SignedInAs(user) == [ok |-> TRUE, error |-> "", user |-> Some(user)]

\* a variant that takes any challenge for the request's own
signInChallengeUnchecked(payload, reqDomain, method) == TRUE

\* authorize, lines 115-117: the challenge is for this host and this method
signInChallengeMatches(payload, reqDomain, method) ==
    payload.domain = reqDomain /\ payload.method = method

\* authorize(credentials, reqCtx), lines 106-150, at Date.now() = nowMs
authorize(credentials, header, host, nowMs) ==
    IF credentials.method = NULL THEN NoUser("Missing method")
    ELSE
      LET method == Get(credentials.method)
          chall == readChallengeCookieAtSignIn(header, nowMs)
      IN
      IF ~chall.ok THEN NoUser("Invalid challenge")
      ELSE
        LET payload == Get(chall.payload) IN
        IF ~signInChallengeMatches(payload, getDomainFromReq(host), method)
        THEN NoUser("Challenge mismatch")
        ELSE IF method = "personal_sign"
        THEN IF credentials.signature = NULL THEN NoUser("Missing signature")
             ELSE IF payload.message = NULL THEN NoUser("Missing challenge message")
             ELSE LET rec == recoverMessageAddress(Get(payload.message),
                                                   Get(credentials.signature))
                  IN  IF rec.threw THEN NoUser("recoverMessageAddress")
                      ELSE SignedInAs(WalletUser(rec.v))
        ELSE IF method = "siwe"
        THEN IF credentials.signature = NULL \/ credentials.siweMessage = NULL
             THEN NoUser("Missing SIWE message or signature")
             ELSE
               LET parsed == parseSiweMessage(Get(credentials.siweMessage))
                   rec == recoverMessageAddress(Get(credentials.siweMessage),
                                                Get(credentials.signature))
               IN  IF parsed.nonce = NULL \/ Get(parsed.nonce) # payload.nonce
                   THEN NoUser("SIWE nonce mismatch")
                   ELSE IF parsed.domain = NULL \/ Get(parsed.domain) # payload.domain
                   THEN NoUser("SIWE domain mismatch")
                   ELSE IF rec.threw THEN NoUser("recoverMessageAddress")
                   ELSE IF parsed.address = <<>>
                             \/ ToLowerCase(rec.v) # ToLowerCase(parsed.address)
                   THEN NoUser("SIWE address does not match recovered address")
                   ELSE IF parsed.expirationTime # NULL
                             /\ nowMs > getTime(Get(parsed.expirationTime))
                   THEN NoUser("SIWE message expired")
                   ELSE SignedInAs(WalletUser(rec.v))
        ELSE NoUser("Unsupported method")

\* callbacks.jwt at sign-in, lines 168-184, on the token NextAuth starts from
\* (name, email and sub of the user); profile: Google's, NULL for credentials
jwtCallback(user, profile) ==
    LET oauth == [id |-> IF profile = NULL THEN NULL ELSE Some(Get(profile).sub),
                  email |-> IF user.email # NULL \/ profile = NULL THEN user.email
                            ELSE Get(profile).email,
                  name |-> IF user.name # NULL \/ profile = NULL THEN user.name
                           ELSE Get(profile).name,
                  walletAddress |-> NULL]
        wallet == IF StartsWithWallet(user.id)
                  THEN [oauth EXCEPT !.id = Some(user.id),
                                     !.walletAddress = user.walletAddress]
                  ELSE oauth
    IN  [id |-> IF wallet.id # NULL THEN Get(wallet.id) ELSE user.id,
         email |-> wallet.email, name |-> wallet.name,
         walletAddress |-> wallet.walletAddress]

\* the session a browser holds: the token, and the sign-in request that made
\* it when that was a wallet sign-in
Session(token, signIn) == [token |-> token, signIn |-> signIn]

\* the token getToken reads from the request of browser b
getToken(b) == IF session[b] = NULL THEN NULL ELSE Some(Get(session[b]).token)

\* POST /api/auth/callback/ethereum: a failed sign-in leaves the session as
\* it was
SignInWithWallet(b, credentials, header, host) ==
    /\ LET a == authorize(credentials, header, host, now)
       IN  /\ a.ok
           /\ session' = [session EXCEPT ![b] =
                            Some(Session(jwtCallback(Get(a.user), NULL),
                                         Some([body |-> credentials,
                                               header |-> header, host |-> host,
                                               at |-> now])))]
    /\ UNCHANGED <<profiles, favorites, now, ticks, nreq, jar, slot, cx>>

\* the Google sign-in of the account of id g1
SignInWithGoogle(b) ==
    /\ session' = [session EXCEPT ![b] =
                     Some(Session(jwtCallback(GoogleUser, Some(GoogleProfile)), NULL))]
    /\ UNCHANGED <<profiles, favorites, now, ticks, nreq, jar, slot, cx>>

\* credentials a client can put together with the cookie value j in front of
\* it: the honest ones, a signature that is none, a signature made for another
\* text, and a SIWE text with another nonce
SignInBodies(j) ==
    HonestBodies(j)
    \cup {PersonalBody(BadSig),
          PersonalBody(Sig(AddrA, SiweText(NULL, AddrA, NULL, NULL))),
          SiweBody(SiweText(Some(getDomainFromReq(AppHost)), AddrA, Some("n2"), NULL),
                   Sig(AddrA, SiweText(Some(getDomainFromReq(AppHost)), AddrA,
                                       Some("n2"), NULL)))}

\* what a client can send to the wallet sign-in: the cookie it holds, to the
\* application's host or to another
SignInRequests(b) ==
    {LinkRequest(body, BrowserHeader(jar[b]), h) :
        body \in SignInBodies(jar[b]), h \in Hosts}

\* link requests of a signed-in client
LinkSignedIn(s) ==
    /\ slot[s].pc = "handle"
    /\ \E r \in CoreLinkRequests(slot[s].browser) :
          LinkGate(s, r.body, r.header, r.host, TRUE)

NextSignIn ==
    \/ \E s \in One, b \in Users, m \in {"siwe", "personal_sign"} :
            nreq < MaxGateRequests
            /\ WalletChallenge(s, b, getToken(b), AppHost, m, "n1")
    \/ \E b \in Users : \E r \in SignInRequests(b) :
            session[b] = NULL /\ SignInWithWallet(b, r.body, r.header, r.host)
    \/ \E b \in Users : session[b] = NULL /\ SignInWithGoogle(b)
    \/ \E s \in One, b \in Users :
            nreq < MaxGateRequests /\ Arrive(s, b, "wallet", getToken(b), "link")
    \/ \E s \in One : EnsureSelect(s)
    \/ \E s \in One : EnsureInsert(s)
    \/ \E s \in One : LinkSignedIn(s)
    \/ \E s \in One : LinkCheckWallet(s)
    \/ \E s \in One : LinkCheckUser(s)
    \/ \E s \in One : LinkUpdate(s)
    \/ \E s \in One : Deliver(s)
    \/ \E d \in TickSteps : Tick(d)

SpecSignIn == Init /\ [][NextSignIn]_vars

\* sign-in request e passed the challenge checks and the address w is the
\* lowercased address recovered from its signature
RecoveredAtSignIn(e, w) ==
    /\ e.header # <<>>
    /\ e.at <= getTime(Get(Presents(e).expiresAt))
    /\ Presents(e).domain = e.host.name
    /\ e.body.method = Some(Presents(e).method)
    /\ e.body.signature # NULL
    /\ Get(e.body.signature).wellFormed
    /\ \/ /\ Presents(e).method = "personal_sign"
          /\ Presents(e).message # NULL
          /\ w = ToLowerCase(recoverMessageAddress(Get(Presents(e).message),
                                                   Get(e.body.signature)).v)
       \/ /\ Presents(e).method = "siwe"
          /\ e.body.siweMessage # NULL
          /\ LET m == Get(e.body.siweMessage)
             IN  /\ m.nonce = Some(Presents(e).nonce)
                 /\ m.domain = Some(Presents(e).domain)
                 /\ Get(e.body.signature).over = Some(m)
                 /\ ToLowerCase(Get(e.body.signature).signer) = ToLowerCase(m.address)
                 /\ w = ToLowerCase(Get(e.body.signature).signer)

\* request s is a link request on the session path that reached handleLink
SessionPathLink(s) ==
    /\ slot[s].route = "wallet" /\ slot[s].action = "link"
    /\ slot[s].req # NULL
    /\ Get(slot[s].req).body.method = Some("session")
    /\ slot[s].walletAddress # <<>>

\* C18: a session token carries a walletAddress only when a wallet sign-in
\* set it to the lowercased address recovered from the sign-in's signature
\* after the challenge checks; the session path hands exactly that address,
\* well-formed, to handleLink, and where it is answered with success the
\* address is on the caller's profile and on no other.
C18_SessionPathLinksSignInAddress ==
    /\ \A b \in Users :
         (session[b] # NULL /\ Get(session[b]).token.walletAddress # NULL)
         => /\ Get(session[b]).signIn # NULL
            /\ RecoveredAtSignIn(Get(Get(session[b]).signIn),
                                 Get(Get(session[b]).token.walletAddress))
    /\ \A s \in Slots :
         SessionPathLink(s)
         => /\ Get(slot[s].token).walletAddress = Some(slot[s].walletAddress)
            /\ isValidEthereumAddress(slot[s].walletAddress)
            /\ (slot[s].pc = "done" /\ Sent(s).status = 200)
                 => \A r \in profiles :
                      r.wallet_address = Some(slot[s].walletAddress)
                        <=> r.user_id = UserId(s)

\* the account AddrA signed in with its wallet, and the session path linked
\* its address to the profile of that session's user
C18_Witness ==
    /\ SessionPathLink("r1")
    /\ slot["r1"].pc = "done" /\ Sent("r1").status = 200
    /\ slot["r1"].walletAddress = ToLowerCase(AddrA)
    /\ session[slot["r1"].browser] # NULL
    /\ Get(session[slot["r1"].browser]).token = Get(slot["r1"].token)
    /\ \E r \in profiles : /\ r.user_id = "wallet:a"
                           /\ r.wallet_address = Some(ToLowerCase(AddrA))

(***************************************************************************)
(* Properties of just-in-time profile creation (Spec)                      *)
(***************************************************************************)
\* C19: ensureUserProfile completes without error for a caller who has no
\* profile row, whatever rows other users have: its insert succeeds, and the
\* caller's row exists when the route's operation starts.
C19_EnsureCompletesForAnyCaller ==
    [][\A s \in Slots :
         (/\ slot[s].pc = "ensure_insert"
          /\ Stepping(s)
          /\ RowsOf(profiles, UserId(s)) = {})
         => /\ slot'[s].pc = "handle"
            /\ RowsOf(profiles', UserId(s)) # {}]_vars

\* C20: when another request of the same user created the profile row after
\* this request looked for it, this request's ensureUserProfile still
\* completes, and the user has exactly one row afterwards.
C20_ConcurrentEnsureIsUpsert ==
    [][\A s \in Slots :
         (/\ slot[s].pc = "ensure_insert"
          /\ Stepping(s)
          /\ RowsOf(profiles, UserId(s)) # {})
         => /\ slot'[s].pc = "handle"
            /\ Cardinality(RowsOf(profiles', UserId(s))) = 1]_vars

(***************************************************************************)
(* The wallet handler's functions on their own: handleCheck, handleUnlink  *)
(* and handleLink are called with a client and a user id, with or without  *)
(* ensureUserProfile before them, and handleLink with an address that the  *)
(* gates let through                                                       *)
(***************************************************************************)
VerifiedAddresses == {ToLowerCase(AddrA), ToLowerCase(AddrB)}

\* handleCheck / handleUnlink / handleLink (wallet.js 312, 344, 409) called
\* for a caller without ensureUserProfile before it
CallHandler(s, token, action) ==
    /\ FreeSlot(s)
    /\ nreq < MaxRequests
    /\ nreq' = nreq + 1
    /\ slot' = [slot EXCEPT ![s] =
                  [IdleSlot EXCEPT !.pc = "handle", !.route = "wallet",
                                   !.browser = token.id, !.token = Some(token),
                                   !.action = action]]
    /\ UNCHANGED <<profiles, favorites, now, ticks, jar, session, cx>>

\* case 'link' with the gates passed: handleLink(supabaseClient, token.id,
\* walletAddress, res), wallet.js 225 and 290
LinkVerified(s, walletAddress) ==
    /\ slot[s].pc = "handle" /\ slot[s].route = "wallet"
    /\ slot[s].action = "link"
    /\ slot' = [slot EXCEPT ![s] =
                  [@ EXCEPT !.pc = "link_check_wallet",
                            !.walletAddress = walletAddress,
                            !.overlaps = {o \in Slots \ {s} :
                                            slot[o].pc \in InHandleLink}]]
    /\ UNCHANGED <<profiles, favorites, now, ticks, nreq, jar, session, cx>>

NextHandlers ==
    \/ \E s \in Slots, t \in Tokens, a \in {"check", "unlink", "link"} :
            Arrive(s, t.id, "wallet", Some(t), a)
    \/ \E s \in Slots, t \in Tokens, a \in {"check", "unlink", "link"} :
            CallHandler(s, t, a)
    \/ \E s \in Slots : EnsureSelect(s)
    \/ \E s \in Slots : EnsureInsert(s)
    \/ \E s \in Slots : HandleCheck(s)
    \/ \E s \in Slots : HandleUnlink(s)
    \/ \E s \in Slots, w \in VerifiedAddresses : LinkVerified(s, w)
    \/ \E s \in Slots : LinkCheckWallet(s)
    \/ \E s \in Slots : LinkCheckUser(s)
    \/ \E s \in Slots : LinkUpdate(s)
    \/ \E s \in Slots : Deliver(s)
    \/ \E d \in TickSteps : Tick(d)

SpecHandlers == Init /\ [][NextHandlers]_vars

\* the step in which handleUnlink runs for request s
UnlinkStep(s) ==
    /\ slot[s].pc = "handle" /\ slot[s].route = "wallet"
    /\ slot[s].action = "unlink"
    /\ Stepping(s)

\* table with both wallet fields of user v's row set to null
WalletCleared(table, v) ==
    {IF r.user_id = v
     THEN [r EXCEPT !.wallet_address = NULL, !.wallet_linked_at = NULL]
     ELSE r : r \in table}

\* C21: in the step of handleUnlink, when the caller has a profile row the
\* table afterwards is the table before with wallet_address and
\* wallet_linked_at of that row null (whether or not a wallet was linked),
\* every other column and row as before, and the answer is 200 success; when
\* the caller has no row the table is unchanged and the answer is 404
\* PROFILE_NOT_FOUND.
C21_UnlinkFrame ==
    [][\A s \in Slots :
          UnlinkStep(s) =>
            IF RowsOf(profiles, UserId(s)) # {}
            THEN /\ profiles' = WalletCleared(profiles, UserId(s))
                 /\ slot'[s].pc = "done"
                 /\ Sent(s)'.status = 200 /\ Sent(s)'.code = "success"
            ELSE /\ profiles' = profiles
                 /\ slot'[s].pc = "done"
                 /\ Sent(s)'.status = 404
                 /\ Sent(s)'.code = "PROFILE_NOT_FOUND"]_vars

\* one unlink was answered 404 for a caller without a row, another 200 for
\* a caller whose row is now without a wallet while the row of a third
\* party holds one
C21_Witness ==
    \E s \in Slots, o \in Slots :
        /\ slot[s].pc = "done" /\ slot[s].action = "unlink"
        /\ Sent(s).status = 404 /\ RowsOf(profiles, UserId(s)) = {}
        /\ slot[o].pc = "done" /\ slot[o].action = "unlink"
        /\ Sent(o).status = 200
        /\ \E r \in RowsOf(profiles, UserId(o)) :
              r.wallet_address = NULL /\ r.wallet_linked_at = NULL

\* the step in which handleCheck runs for request s
CheckStep(s) ==
    /\ slot[s].pc = "handle" /\ slot[s].route = "wallet"
    /\ slot[s].action = "check"
    /\ Stepping(s)

\* C22: the step of handleCheck leaves both tables as they were and answers
\* 200; the body has isLinked true exactly when the caller's row has a
\* non-null wallet_address, with that address and its timestamp, and for a
\* caller without a row isLinked false with null fields.
C22_CheckReadOnly ==
    [][\A s \in Slots :
          CheckStep(s) =>
            /\ profiles' = profiles /\ favorites' = favorites
            /\ slot'[s].pc = "done"
            /\ Sent(s)'.status = 200
            /\ LET rows == RowsOf(profiles, UserId(s))
                   body == Get(Sent(s)'.data)
               IN  IF rows = {}
                   THEN body = [isLinked |-> FALSE, walletAddress |-> NULL,
                                linkedAt |-> NULL]
                   ELSE \E r \in rows :
                          /\ body.isLinked = (r.wallet_address # NULL)
                          /\ body.walletAddress = r.wallet_address
                          /\ body.linkedAt = r.wallet_linked_at]_vars

\* one check was answered isLinked false for a caller without a row, another
\* isLinked true with the address the caller's row holds
C22_Witness ==
    \E s \in Slots, o \in Slots :
        /\ slot[s].pc = "done" /\ slot[s].action = "check"
        /\ RowsOf(profiles, UserId(s)) = {}
        /\ Sent(s).status = 200 /\ ~Get(Sent(s).data).isLinked
        /\ slot[o].pc = "done" /\ slot[o].action = "check"
        /\ Sent(o).status = 200 /\ Get(Sent(o).data).isLinked
        /\ \E r \in RowsOf(profiles, UserId(o)) :
              /\ r.wallet_address # NULL
              /\ Get(Sent(o).data).walletAddress = r.wallet_address

(***************************************************************************)
(* The wallet route with and without a session: every action of            *)
(* /api/wallet, sent by clients that hold a session and clients that do not *)
(***************************************************************************)
AuthenticatedActions == {"link", "unlink", "check", "getProfile"}

NextAuth ==
    \/ \E s \in Slots, b \in Users, m \in {"siwe", "personal_sign"} :
         \E t \in AnySession(b) : WalletChallenge(s, b, t, AppHost, m, "n1")
    \/ \E s \in Slots, b \in Users, a \in AuthenticatedActions :
         \E t \in AnySession(b) : Arrive(s, b, "wallet", t, a)
    \/ \E s \in Slots : EnsureSelect(s)
    \/ \E s \in Slots : EnsureInsert(s)
    \/ \E s \in Slots : HandleCheck(s)
    \/ \E s \in Slots : HandleGetProfile(s)
    \/ \E s \in Slots : HandleUnlink(s)
    \/ \E s \in Slots : LinkCore(s)
    \/ \E s \in Slots : LinkCheckWallet(s)
    \/ \E s \in Slots : LinkCheckUser(s)
    \/ \E s \in Slots : LinkUpdate(s)
    \/ \E s \in Slots : Deliver(s)

SpecAuth == Init /\ [][NextAuth]_vars

\* the step in which request s arrives without a session
ArrivesWithoutSession(s) ==
    /\ slot[s].pc = "idle" /\ slot'[s].pc # "idle"
    /\ slot'[s].token = NULL

\* C23: a link, unlink, check or getProfile request that arrives without a
\* session is answered 401 NOT_AUTHENTICATED in the step of its arrival,
\* with both tables untouched and no position of ensureUserProfile or of a
\* handler function entered; a challenge request that arrives without a
\* session is answered 200, and the challenge in its cookie has no userId.
C23_SessionRequired ==
    [][\A s \in Slots :
          ArrivesWithoutSession(s) =>
            /\ profiles' = profiles /\ favorites' = favorites
            /\ slot'[s].pc = "done"
            /\ IF slot'[s].action = "challenge"
               THEN /\ Sent(s)'.status = 200
                    /\ HeldPayload(BrowserStore(NULL, Sent(s)')).userId = NULL
               ELSE /\ slot'[s].action \in AuthenticatedActions
                    /\ Sent(s)'.status = 401
                    /\ Sent(s)'.code = "NOT_AUTHENTICATED"]_vars

\* a getProfile without a session was answered 401 and a challenge without
\* a session 200, while the table holds no row
C23_Witness ==
    \E s \in Slots, o \in Slots :
        /\ slot[s].pc = "done" /\ slot[s].token = NULL
        /\ slot[s].action = "getProfile" /\ Sent(s).status = 401
        /\ slot[o].pc = "done" /\ slot[o].token = NULL
        /\ slot[o].action = "challenge" /\ Sent(o).status = 200
        /\ profiles = {}

(***************************************************************************)
(* updateUserFavorites when the database function is there and raises: the *)
(* favorites route, and updateUserFavorites called for a caller whose      *)
(* profile row was never created, one call at a time                       *)
(***************************************************************************)
\* the caller of updateUserFavorites(supabaseClient, userId, favorites),
\* index.js 177, without ensureUserProfile before it
CallFavorites(s, token) ==
    /\ FreeSlot(s)
    /\ nreq < MaxRequests
    /\ nreq' = nreq + 1
    /\ slot' = [slot EXCEPT ![s] =
                  [IdleSlot EXCEPT !.pc = "handle", !.route = "favorites",
                                   !.browser = token.id, !.token = Some(token),
                                   !.action = "POST"]]
    /\ UNCHANGED <<profiles, favorites, now, ticks, jar, session, cx>>

NextFallback ==
    \/ \E s \in One, b \in Users : \E t \in SessionOf(b), a \in {"GET", "POST"} :
            Arrive(s, b, "favorites", t, a)
    \/ \E s \in One, t \in Tokens : CallFavorites(s, t)
    \/ \E s \in One : EnsureSelect(s)
    \/ \E s \in One : EnsureInsert(s)
    \/ \E s \in One : FavoritesGet(s)
    \/ \E s \in One, l \in RawFavoriteInputs, f \in BOOLEAN :
            UpdateUserFavoritesCalled(s, l, f)
    \/ \E s \in One : ReplaceEnter(s)
    \/ \E s \in One : ReplaceCommit(s)
    \/ \E s \in One : FavoritesFallbackDelete(s)
    \/ \E s \in One : FavoritesFallbackInsert(s)
    \/ \E s \in One : Deliver(s)

SpecFallback == Init /\ [][NextFallback]_vars

Gate(fails, code) == [fails |-> fails, code |-> code]

\* The gates of a signature-based link request r of user userId in the order
\* of the claim, each judged on its own.  A gate that reads the challenge is
\* judged on an empty challenge when the cookie did not decode, one that
\* reads the recovered account on no account when nothing was recovered.
GatesInOrder(userId, r) ==
    LET body == r.body
        chall == readChallengeCookie(r.header, r.at)
        decoded == ~chall.threw /\ chall.ok
        p == IF decoded THEN Get(chall.payload)
             ELSE [userId |-> NULL, method |-> "", domain |-> "", nonce |-> "",
                   message |-> NULL]
        text == IF body.method = Some("siwe") THEN body.siweMessage ELSE p.message
        rec == IF body.signature # NULL /\ text # NULL
               THEN recoverMessageAddress(Get(text), Get(body.signature))
               ELSE [threw |-> TRUE, v |-> <<>>]
        parsed == IF body.siweMessage # NULL
                  THEN parseSiweMessage(Get(body.siweMessage))
                  ELSE [domain |-> NULL, address |-> <<>>, nonce |-> NULL,
                        expirationTime |-> NULL]
        challenge ==
            << Gate(~decoded, "CHALLENGE_INVALID"),
               Gate(p.userId # Some(userId), "CHALLENGE_MISMATCH"),
               Gate(Some(p.method) # body.method, "CHALLENGE_METHOD_MISMATCH"),
               Gate(p.domain # r.host.name, "DOMAIN_MISMATCH") >>
        signature ==
            IF body.method = Some("personal_sign")
            THEN << Gate(body.signature = NULL, "MISSING_SIGNATURE"),
                    Gate(p.message = NULL, "CHALLENGE_INVALID"),
                    Gate(rec.threw, "SIGNATURE_INVALID") >>
            ELSE IF body.method = Some("siwe")
            THEN << Gate(body.signature = NULL \/ body.siweMessage = NULL,
                         "MISSING_SIGNATURE"),
                    Gate(parsed.nonce # Some(p.nonce), "NONCE_MISMATCH"),
                    Gate(parsed.domain # Some(p.domain), "DOMAIN_MISMATCH"),
                    Gate(rec.threw, "SIGNATURE_INVALID"),
                    Gate(parsed.address = <<>>
                           \/ ToLowerCase(rec.v) # ToLowerCase(parsed.address),
                         "ADDRESS_MISMATCH"),
                    Gate(parsed.expirationTime # NULL
                           /\ r.at > getTime(Get(parsed.expirationTime)),
                         "CHALLENGE_EXPIRED") >>
            ELSE << Gate(TRUE, "INVALID_METHOD") >>
        address ==
            << Gate(~isAddress(rec.v), "SIGNATURE_INVALID"),
               Gate(~isValidEthereumAddress(ToLowerCase(rec.v)), "INVALID_WALLET") >>
    IN  challenge \o signature \o address

\* the first gate of the list that fails, 0 when none does
FirstFailing(gates) ==
    LET failing == {i \in 1..Len(gates) : gates[i].fails}
    IN  IF failing = {} THEN 0 ELSE Min(failing)

\* request s is a link request with a method other than 'session' whose
\* gates have run
GatedBySignature(s) ==
    /\ slot[s].req # NULL
    /\ slot[s].route = "wallet" /\ slot[s].action = "link"
    /\ Get(slot[s].req).body.method \notin {NULL, Some("session")}

SiweChecksReached(s) ==
    /\ slot[s].req # NULL
    /\ slot[s].route = "wallet" /\ slot[s].action = "link"
    /\ LET r == Get(slot[s].req)
       IN  /\ r.body.method = Some("siwe") /\ r.header # <<>>
           /\ r.body.signature # NULL /\ r.body.siweMessage # NULL
           /\ Presents(r).method = "siwe"
           /\ Presents(r).userId = Some(UserId(s))
           /\ Presents(r).domain = r.host.name
           /\ r.at <= getTime(Get(Presents(r).expiresAt))

\* the SIWE text of request s carries the nonce of the challenge
NonceOfChallenge(s) ==
    Get(Get(slot[s].req).body.siweMessage).nonce
        = Some(Presents(Get(slot[s].req)).nonce)

\* the SIWE text of request s carries the domain of the challenge
DomainOfChallenge(s) ==
    Get(Get(slot[s].req).body.siweMessage).domain
        = Some(Presents(Get(slot[s].req)).domain)

\* the signature of request s is one of account a over the submitted text
SignedBy(s, a) ==
    LET body == Get(slot[s].req).body
    IN  /\ Get(body.signature).wellFormed
        /\ Get(body.signature).over = body.siweMessage
        /\ ToLowerCase(Get(body.signature).signer) = ToLowerCase(a)

\* C26: a siwe link request that reaches the siwe checks is answered 400
\* NONCE_MISMATCH when its text has no nonce or another nonce than the
\* challenge, and 400 ADDRESS_MISMATCH when its text has the nonce and the
\* domain of the challenge and the account recovered from the signature is
\* not (ignoring case) the account the text names; neither enters
\* handleLink.  A request that enters handleLink does so with the account
\* that signed the submitted text, and the text carries the nonce and the
\* domain of the challenge.
C26_SiweNonceAndAddress ==
    \A s \in Slots :
        SiweChecksReached(s) =>
            LET body == Get(slot[s].req).body
                text == Get(body.siweMessage)
                rejected == slot[s].pc = "done" /\ slot[s].walletAddress = <<>>
                                /\ Sent(s).status = 400
            IN  /\ ~NonceOfChallenge(s)
                     => rejected /\ Sent(s).code = "NONCE_MISMATCH"
                /\ (/\ NonceOfChallenge(s) /\ DomainOfChallenge(s)
                    /\ Get(body.signature).wellFormed
                    /\ ~SignedBy(s, text.address))
                     => rejected /\ Sent(s).code = "ADDRESS_MISMATCH"
                /\ slot[s].walletAddress # <<>>
                     => /\ NonceOfChallenge(s) /\ DomainOfChallenge(s)
                        /\ SignedBy(s, slot[s].walletAddress)

\* a text with the challenge's nonce and domain that names one account and
\* was signed by another was answered ADDRESS_MISMATCH, and the table holds
\* no wallet
C26_Witness ==
    \E s \in Slots :
        /\ SiweChecksReached(s) /\ slot[s].pc = "done"
        /\ NonceOfChallenge(s) /\ DomainOfChallenge(s)
        /\ Get(slot[s].req).body.signature
             = Some(Sig(AddrA, Get(Get(slot[s].req).body.siweMessage)))
        /\ Get(Get(slot[s].req).body.siweMessage).address = AddrB
        /\ Sent(s).code = "ADDRESS_MISMATCH"
        /\ \A r \in profiles : r.wallet_address = NULL

(***************************************************************************)
(* Signature recovery as the handler sees it: the library hands back the   *)
(* account of the signer or, for all the handler knows, a value that is no *)
(* account address                                                         *)
(***************************************************************************)
\* what recovery may return for a signature over the challenge's text
RecoveredValues == {AddrA, NotAnAddr}

\* the bodies of a client that signs what the challenge it holds asks for
RecoveryBodies(j) ==
    IF j = NULL THEN {}
    ELSE LET p == HeldPayload(j) IN
         IF p.method = "personal_sign"
         THEN {PersonalBody(Sig(a, Get(p.message))) : a \in RecoveredValues}
         ELSE {SiweBody(SiweText(Some(p.domain), a, Some(p.nonce), NULL),
                        Sig(a, SiweText(Some(p.domain), a, Some(p.nonce), NULL)))
                 : a \in RecoveredValues}

LinkRecovered(s) ==
    /\ slot[s].pc = "handle"
    /\ \E body \in RecoveryBodies(jar[slot[s].browser]) :
          LinkGate(s, body, BrowserHeader(jar[slot[s].browser]), AppHost, TRUE)

NextRecovery ==
    \/ \E s \in One, b \in Users, m \in {"siwe", "personal_sign"} :
         \E t \in SessionOf(b) : WalletChallenge(s, b, t, AppHost, m, "n1")
    \/ \E s \in One, b \in Users : \E t \in SessionOf(b) :
            Arrive(s, b, "wallet", t, "link")
    \/ \E s \in One : EnsureSelect(s)
    \/ \E s \in One : EnsureInsert(s)
    \/ \E s \in One : LinkRecovered(s)
    \/ \E s \in One : LinkCheckWallet(s)
    \/ \E s \in One : LinkCheckUser(s)
    \/ \E s \in One : LinkUpdate(s)
    \/ \E s \in One : Deliver(s)

SpecRecovery == Init /\ [][NextRecovery]_vars

TakenByAnother(s) ==
    \E r \in profiles : /\ r.user_id # UserId(s)
                        /\ r.wallet_address = Some(slot[s].walletAddress)

\* C28: while the address a link request verified is stored on another
\* user's row, no step of handleLink for a caller with a profile row changes
\* the profiles table, the step of the update ends the request, and the
\* request ends with 409 WALLET_TAKEN; its queries run under the caller's
\* own identity claim.
C28_TakenAddressIsRefused ==
    [][\A s \in Slots :
          (/\ slot[s].pc \in InHandleLink /\ slot'[s].pc # slot[s].pc
           /\ TakenByAnother(s)
           /\ RowsOf(profiles, UserId(s)) # {})
          => /\ profiles' = profiles
             /\ Jwt(s).sub = UserId(s)
             /\ slot[s].pc = "link_update" => slot'[s].pc = "done"
             /\ slot'[s].pc = "done"
                  => Sent(s)'.status = 409 /\ Sent(s)'.code = "WALLET_TAKEN"]_vars

\* a link request that ran alone was answered 409 WALLET_TAKEN; the caller's
\* row holds no wallet and another user's row holds the address
C28_Witness ==
    \E s \in Slots :
        /\ AnsweredLink(s) /\ slot[s].overlaps = {}
        /\ \A o \in Slots \ {s} : slot[o].pc = "idle"
        /\ Sent(s).status = 409 /\ Sent(s).code = "WALLET_TAKEN"
        /\ TakenByAnother(s)
        /\ \E r \in RowsOf(profiles, UserId(s)) :
              r.wallet_address = NULL /\ r.wallet_linked_at = NULL

(***************************************************************************)
(* The two readers of the challenge cookie on one Cookie header: the       *)
(* server sets a cookie, the client may alter it or send a second          *)
(* wallet_challenge entry after it, and both readers read the header       *)
(***************************************************************************)
\* the client's header carries a second wallet_challenge entry, a cookie the
\* server set for challenge c
CodecSecondEntry(c) ==
    /\ cx.stage = "set"
    /\ LET held == BrowserStore(NULL, setChallengeCookie(NewRes, c))
       IN  cx' = [cx EXCEPT !.stage = "two", !.how = "second entry",
                            !.header = cx.header \o BrowserHeader(held)]
    /\ UNCHANGED <<profiles, favorites, now, ticks, nreq, jar, slot, session>>

\* readChallengeCookie(req) of wallet.js and of [...nextauth].js at nowMs
CodecReadBoth(nowMs) ==
    /\ cx.stage \in {"set", "forged", "two"}
    /\ cx' = [stage |-> "read both", c |-> cx.c, how |-> cx.how,
              header |-> cx.header, at |-> nowMs,
              out |-> readChallengeCookie(cx.header, nowMs),
              outAtSignIn |-> readChallengeCookieAtSignIn(cx.header, nowMs)]
    /\ UNCHANGED <<profiles, favorites, now, ticks, nreq, jar, slot, session>>

NextReaders ==
    \/ \E c \in CodecPayloads : CodecSet(c)
    \/ CodecForge
    \/ \E c \in CodecPayloads : CodecSecondEntry(c)
    \/ \E t \in CodecTimes : CodecReadBoth(t)

SpecReaders == Init /\ [][NextReaders]_vars

\* C29: on every Cookie header, headers with more than one wallet_challenge
\* entry included, the reader of the wallet handler and the reader of the
\* wallet sign-in return the same result: both throw, or both return the
\* same ok, code and payload.
C29_ReadersAgree ==
    cx.stage = "read both" => cx.out = cx.outAtSignIn

\* the step in which handleLink answers request s
LinkAnswered(s) == slot[s].pc \in InHandleLink /\ slot'[s].pc = "done"

\* C30: every user has at most one profile row, hence at most one wallet
\* address.  A link that handleLink answers with success leaves the caller's
\* row with the linked address and the time of the link, whatever the row
\* held before (another address, the same address, none); an address the
\* row held before and that was replaced is on no row afterwards; the rows
\* of other users are as before.  A link of an address that no other user's
\* row holds, by a caller with a profile row, is answered with success.
C30_OneWalletPerProfile ==
    [][/\ \A v \in Users : Cardinality(RowsOf(profiles', v)) <= 1
       /\ \A s \in Slots :
            LinkAnswered(s) =>
              LET u == UserId(s)
                  W == slot[s].walletAddress
              IN  /\ (RowsOf(profiles, u) # {} /\ ~TakenByAnother(s))
                        => Sent(s)'.status = 200
                  /\ Sent(s)'.status = 200
                        => /\ WalletFieldsOf(profiles', u)
                                = {<<Some(W), Some(toISOString(now))>>}
                           /\ Get(Sent(s)'.data).walletAddress = Some(W)
                           /\ \A held \in WalletFieldsOf(profiles, u) :
                                (held[1] # NULL /\ held[1] # Some(W))
                                => ~\E r \in profiles' : r.wallet_address = held[1]
                           /\ \A v \in Users \ {u} :
                                RowsOf(profiles', v) = RowsOf(profiles, v)]_vars

\* a user linked one address and later another, both with success and one
\* after the other: the row holds the second address with the second time,
\* and no row holds the first address
C30_Witness ==
    \E a \in Slots, b \in Slots :
        /\ AnsweredLink(a) /\ AnsweredLink(b)
        /\ slot[a].token = slot[b].token
        /\ Sent(a).status = 200 /\ Sent(b).status = 200
        /\ slot[a].walletAddress # slot[b].walletAddress
        /\ Get(Sent(a).data).linkedAt = Some(toISOString(0))
        /\ Get(Sent(b).data).linkedAt # Some(toISOString(0))
        /\ a \notin slot[b].overlaps /\ b \notin slot[a].overlaps
        /\ WalletFieldsOf(profiles, UserId(b))
             = {<<Some(slot[b].walletAddress), Get(Sent(b).data).linkedAt>>}
        /\ ~\E r \in profiles : r.wallet_address = Some(slot[a].walletAddress)
=============================================================================
